---------------------------- MODULE Spec2Model ----------------------------
(***************************************************************************)
(* A model of the MCP Gateway workflows: the Discovery graph               *)
(* (src/discovery) and the Generation graph (src/generation), compiled     *)
(* with a checkpointer and interrupt points by src/utils/workflow.py and   *)
(* driven by the run/resume functions of src/main.py.                      *)
(*                                                                         *)
(* Text is modelled as a sequence of one-character strings, so that        *)
(* strip(), split("?"), re.sub(r"\s+", "") and upper() are computed, not   *)
(* assumed.                                                                *)
(***************************************************************************)
EXTENDS Integers, Sequences, FiniteSets, TLC

(***************************************************************************)
(* Bounds of the model.                                                    *)
(***************************************************************************)
\* the longest raw endpoint list one Discovery run accumulates
MaxRaw == 3
\* the most resume calls a caller makes on one Generation thread
MaxResumes == 2
\* the longest tool list a node function is called on
MaxTools == 3

(***************************************************************************)
(* Text helpers (Python str methods used by the nodes).                    *)
(***************************************************************************)
Whitespace == {" ", "\t"}

IsSpace(c) == c \in Whitespace

RECURSIVE LStrip(_)
LStrip(s) ==
    IF s = <<>> THEN <<>>
    ELSE IF IsSpace(Head(s)) THEN LStrip(Tail(s))
    ELSE s

RECURSIVE RStrip(_)
RStrip(s) ==
    IF s = <<>> THEN <<>>
    ELSE IF IsSpace(s[Len(s)]) THEN RStrip(SubSeq(s, 1, Len(s) - 1))
    ELSE s

\* str.strip()
Strip(s) == RStrip(LStrip(s))

\* path.split("?")[0]: the text before the first "?"
RECURSIVE BeforeQuery(_)
BeforeQuery(s) ==
    IF s = <<>> THEN <<>>
    ELSE IF Head(s) = "?" THEN <<>>
    ELSE <<Head(s)>> \o BeforeQuery(Tail(s))

\* re.sub(r"\s+", "", path)
RemoveWhitespace(s) == SelectSeq(s, LAMBDA c : ~IsSpace(c))

LowerLetters ==
    <<"a", "b", "c", "d", "e", "f", "g", "h", "i", "j", "k", "l", "m",
      "n", "o", "p", "q", "r", "s", "t", "u", "v", "w", "x", "y", "z">>
UpperLetters ==
    <<"A", "B", "C", "D", "E", "F", "G", "H", "I", "J", "K", "L", "M",
      "N", "O", "P", "Q", "R", "S", "T", "U", "V", "W", "X", "Y", "Z">>

UpperChar(c) ==
    IF \E i \in DOMAIN LowerLetters : LowerLetters[i] = c
    THEN UpperLetters[CHOOSE i \in DOMAIN LowerLetters : LowerLetters[i] = c]
    ELSE c

\* str.upper()
Upper(s) == [i \in DOMAIN s |-> UpperChar(s[i])]

\* the characters the model's texts are written in, in a fixed order
Alphabet ==
    LowerLetters \o UpperLetters
    \o <<"/", "?", " ", "\t", "|", "{", "}", ".", ":", "=", "1", "2", "_", "-">>

CharCode(c) == CHOOSE i \in DOMAIN Alphabet : Alphabet[i] = c

(***************************************************************************)
(* hashlib.md5(unique_key.encode()).hexdigest()[:12]                       *)
(* a digest of the key's characters, computed position by position.  The   *)
(* digest is folded to 24 bits so that the arithmetic stays inside TLC's   *)
(* integers; like the 48-bit prefix of MD5 it is a function of the key     *)
(* text alone.                                                             *)
(***************************************************************************)
RECURSIVE DigestFrom(_, _)
DigestFrom(h, s) ==
    IF s = <<>> THEN h
    ELSE DigestFrom((h * 31 + CharCode(Head(s))) % 16777216, Tail(s))

Md5Hex12(key) == DigestFrom(7, key)

\* the sequences over S of length at most n
SeqsUpTo(S, n) == UNION {[1..k -> S] : k \in 0..n}

(***************************************************************************)
(* Endpoint records.  A key a source dictionary leaves out is held with    *)
(* the default its readers pass to dict.get: parameters [], requestBody    *)
(* {}, description "".                                                     *)
(***************************************************************************)
\* requestBody: the keys the dictionary holds and the media types under "content"
EmptyBody == [keys |-> {}, content |-> {}]
JsonBody == [keys |-> {"content"}, content |-> {"application/json"}]

RawEndpoint(method, path, server, description, parameters, requestBody, source) ==
    [method |-> method, path |-> path, server |-> server,
     description |-> description, parameters |-> parameters,
     requestBody |-> requestBody, source |-> source]

(***************************************************************************)
(* The Content-Extraction Oracle (the LLM chain of llm_extract_endpoints): *)
(* the endpoints it may report for a text.  Its answers are not under the  *)
(* program's control: any method case, paths with blanks or a query.       *)
(***************************************************************************)
OracleEndpoints ==
    { [method |-> <<"g", "e", "t">>, path |-> <<"/", "a">>, server |-> <<>>,
       description |-> <<"x">>, parameters |-> <<>>],
      [method |-> <<"G", "E", "T">>, path |-> <<"/", "a", " ", "?", "x">>, server |-> <<>>,
       description |-> <<" ", "y", " ">>, parameters |-> <<"p">>],
      [method |-> <<"p", "o", "s", "t">>, path |-> <<"/", "a">>, server |-> <<>>,
       description |-> <<>>, parameters |-> <<>>],
      [method |-> <<"G", "E", "T">>, path |-> <<" ", "\t">>, server |-> <<>>,
       description |-> <<"x">>, parameters |-> <<>>],
      [method |-> <<"G", "E", "T">>, path |-> <<"/", " ", "b", "\t">>, server |-> <<>>,
       description |-> <<>>, parameters |-> <<"p">>] }

\* the chain raised (any exception)
OracleFailure == [raised |-> TRUE, endpoints |-> <<>>]

\* what one call of the oracle may come to, given room for n more endpoints
OracleOutcomes(n) ==
    {[raised |-> FALSE, endpoints |-> eps] : eps \in SeqsUpTo(OracleEndpoints, n)}
        \cup {OracleFailure}

\* llm_extract_endpoints, given what the chain came to
LlmExtractEndpoints(outcome) ==
    IF outcome.raised THEN <<>>
    ELSE [i \in DOMAIN outcome.endpoints |->
            LET ep == outcome.endpoints[i]
            IN RawEndpoint(Upper(ep.method), ep.path, ep.server,
                           ep.description, ep.parameters, EmptyBody, "llm")]

(***************************************************************************)
(* OpenAPI documents and extract_openapi_endpoints.                        *)
(***************************************************************************)
HttpMethods ==
    { <<"G", "E", "T">>, <<"P", "O", "S", "T">>, <<"P", "U", "T">>,
      <<"D", "E", "L", "E", "T", "E">>, <<"P", "A", "T", "C", "H">>,
      <<"H", "E", "A", "D">>, <<"O", "P", "T", "I", "O", "N", "S">> }

ApiXCom ==
    <<"h", "t", "t", "p", "s", ":", "/", "/", "a", "p", "i", ".", "x", ".", "c", "o", "m">>

\* paths: {"/users": {"get": {...}, "parameters": [...]}, "/users ?x": {"post": {...}}}
UsersDoc ==
    [servers |-> <<ApiXCom>>,
     paths |-> << [path |-> <<"/", "u", "s", "e", "r", "s">>,
                   methods |-> << [method |-> <<"g", "e", "t">>,
                                   description |-> <<"l", "i", "s", "t">>,
                                   parameters |-> <<>>, requestBody |-> EmptyBody],
                                  [method |-> <<"p", "a", "r", "a", "m", "e", "t", "e", "r", "s">>,
                                   description |-> <<>>,
                                   parameters |-> <<>>, requestBody |-> EmptyBody] >>],
                  [path |-> <<"/", "u", "s", "e", "r", "s", " ", "?", "x">>,
                   methods |-> << [method |-> <<"p", "o", "s", "t">>,
                                   description |-> <<>>,
                                   parameters |-> <<"p">>, requestBody |-> JsonBody] >>] >>]

\* servers: [{"url": "https://api.x.com"}], paths: {"/users": {"get": {...}}}
UsersListDoc ==
    [servers |-> <<ApiXCom>>,
     paths |-> << [path |-> <<"/", "u", "s", "e", "r", "s">>,
                   methods |-> << [method |-> <<"g", "e", "t">>,
                                   description |-> <<"l", "i", "s", "t">>,
                                   parameters |-> <<>>, requestBody |-> EmptyBody] >>] >>]

RECURSIVE Flatten(_)
Flatten(ss) == IF ss = <<>> THEN <<>> ELSE Head(ss) \o Flatten(Tail(ss))

extract_openapi_endpoints(spec) ==
    LET server_url == IF spec.servers = <<>> THEN <<>> ELSE spec.servers[1]
        OfPath(item) ==
            LET kept == SelectSeq(item.methods, LAMBDA m : Upper(m.method) \in HttpMethods)
            IN [i \in DOMAIN kept |->
                  RawEndpoint(Upper(kept[i].method), item.path, server_url,
                              kept[i].description, kept[i].parameters,
                              kept[i].requestBody, "openapi")]
    IN Flatten([i \in DOMAIN spec.paths |-> OfPath(spec.paths[i])])

(***************************************************************************)
(* The files a run may be given.                                           *)
(***************************************************************************)
\* openapi: parses and has a "paths" key; no_paths: parses to a dictionary with
\* no "paths" key; scalar: parses to null or to a number; unparseable: json/yaml
\* raise; unreadable: open() raises
FileKind(f) ==
    CASE f = "api.json" -> "openapi"
      [] f = "other.json" -> "no_paths"
      [] f = "null.json" -> "scalar"
      [] f = "notes.txt" -> "unparseable"
      [] OTHER -> "unreadable"

FileLists ==
    { <<"api.json">>, <<"notes.txt">>, <<"missing.yaml">>,
      <<"api.json", "notes.txt">>, <<"notes.txt", "api.json">>,
      <<"missing.yaml", "other.json">>, <<"null.json", "api.json">> }

\* the two calls of llm_extract_endpoints(content): in the else of
\* `if "paths" in spec`, and in the handler of json.JSONDecodeError and
\* yaml.YAMLError.  For a scalar, `"paths" in spec` raises TypeError, which only
\* the outer `except Exception` catches: the file is given up
RoutedToOracle(f) == FileKind(f) \in {"no_paths", "unparseable"}

\* the raw endpoint lists one file may yield, at most n endpoints long
FileResults(f, n) ==
    CASE FileKind(f) = "openapi" ->
            LET eps == extract_openapi_endpoints(UsersDoc)
            IN IF Len(eps) <= n THEN {eps} ELSE {}
      [] RoutedToOracle(f) ->
            {LlmExtractEndpoints(o) : o \in OracleOutcomes(n)}
      [] OTHER -> {<<>>}

\* the loop of parse_files_node over the files, from the list built so far
RECURSIVE ParseFrom(_, _)
ParseFrom(files, acc) ==
    IF files = <<>> THEN {acc}
    ELSE UNION { ParseFrom(Tail(files), acc \o r) :
                    r \in FileResults(Head(files), MaxRaw - Len(acc)) }

(***************************************************************************)
(* normalize_and_dedup_node: the loop over endpoints_raw.                  *)
(***************************************************************************)
\* a plausible slip: the query string is cut but blanks are kept
CanonicalPathKeepsBlanks(stripped) == BeforeQuery(stripped)

\* path.split("?")[0], then re.sub(r"\s+", "", path)
CanonicalPath(stripped) == RemoveWhitespace(BeforeQuery(stripped))

\* f"{server_url}|{method}|{path}"
UniqueKey(server_url, method, path) == server_url \o <<"|">> \o method \o <<"|">> \o path

\* a plausible slip: every key counts as new
IsNewAlways(unique_key, seen) == TRUE

\* unique_key not in seen
IsNew(unique_key, seen) == unique_key \notin seen

\* a plausible slip: the id is taken from the raw path, before it is canonicalized
NormalizedEndpointRawId(ep, server_url, method, path, unique_key) ==
    [id |-> Md5Hex12(UniqueKey(server_url, method, ep.path)),
     method |-> method, path |-> path, server |-> server_url,
     description |-> Strip(ep.description), parameters |-> ep.parameters,
     requestBody |-> ep.requestBody, source |-> ep.source]

\* the normalized_ep dictionary
NormalizedEndpoint(ep, server_url, method, path, unique_key) ==
    [id |-> Md5Hex12(unique_key),
     method |-> method, path |-> path, server |-> server_url,
     description |-> Strip(ep.description), parameters |-> ep.parameters,
     requestBody |-> ep.requestBody, source |-> ep.source]

\* a plausible slip: a later duplicate overwrites the record kept for its key
OnDuplicateOverwrite(normalized, ep, server_url, method, path, unique_key) ==
    [i \in DOMAIN normalized |->
        IF normalized[i].id = Md5Hex12(unique_key)
        THEN NormalizedEndpoint(ep, server_url, method, path, unique_key)
        ELSE normalized[i]]

\* a key already seen: the loop body does nothing
OnDuplicate(normalized, ep, server_url, method, path, unique_key) == normalized

RECURSIVE NormalizeFrom(_, _, _, _)
NormalizeFrom(raw, server_url, seen, normalized) ==
    IF raw = <<>> THEN normalized
    ELSE LET ep == Head(raw)
             method == Upper(ep.method)
             stripped == Strip(ep.path)
             path == CanonicalPath(stripped)
             unique_key == UniqueKey(server_url, method, path)
         IN IF stripped = <<>>
            THEN NormalizeFrom(Tail(raw), server_url, seen, normalized)
            ELSE IF IsNew(unique_key, seen)
            THEN NormalizeFrom(Tail(raw), server_url, seen \cup {unique_key},
                     Append(normalized,
                            NormalizedEndpoint(ep, server_url, method, path, unique_key)))
            ELSE NormalizeFrom(Tail(raw), server_url, seen,
                     OnDuplicate(normalized, ep, server_url, method, path, unique_key))

\* endpoints_normalized, from endpoints_raw and the run's server_url
NormalizeEndpoints(raw, server_url) == NormalizeFrom(raw, server_url, {}, <<>>)

(***************************************************************************)
(* calculate_confidence, in hundredths.                                    *)
(***************************************************************************)
Min(a, b) == IF a <= b THEN a ELSE b

\* a plausible slip: the source bonus goes to every endpoint whose source is known
calculate_confidence_known_source(endpoint) ==
    Min(50 + (IF endpoint.description # <<>> THEN 20 ELSE 0)
           + (IF endpoint.parameters # <<>> THEN 15 ELSE 0)
           + (IF endpoint.source # "unknown" THEN 15 ELSE 0),
        100)

calculate_confidence(endpoint) ==
    Min(50 + (IF endpoint.description # <<>> THEN 20 ELSE 0)
           + (IF endpoint.parameters # <<>> THEN 15 ELSE 0)
           + (IF endpoint.source = "openapi" THEN 15 ELSE 0),
        100)

(***************************************************************************)
(* summarize_for_ui_node: the catalog.                                     *)
(***************************************************************************)
\* path.split("/")
RECURSIVE SplitSlashFrom(_, _)
SplitSlashFrom(s, cur) ==
    IF s = <<>> THEN <<cur>>
    ELSE IF Head(s) = "/" THEN <<cur>> \o SplitSlashFrom(Tail(s), <<>>)
    ELSE SplitSlashFrom(Tail(s), Append(cur, Head(s)))

SplitSlash(s) == SplitSlashFrom(s, <<>>)

\* [p for p in path.split("/") if p and not p.startswith("v") and not p.startswith("{")]
ResourceParts(path) ==
    SelectSeq(SplitSlash(path),
              LAMBDA p : p # <<>> /\ Head(p) # "v" /\ Head(p) # "{")

\* the resource summarize_for_ui_node files an endpoint under
CatalogResource(path) ==
    LET parts == ResourceParts(path)
    IN IF parts # <<>> THEN parts[1] ELSE <<"o", "t", "h", "e", "r">>

CatalogEntry(ep) ==
    [id |-> ep.id, method |-> ep.method, path |-> ep.path,
     description |-> IF ep.description # <<>> THEN ep.description
                     ELSE ep.method \o <<" ">> \o ep.path,
     confidence |-> calculate_confidence(ep)]

\* groups: a dictionary, held in insertion order as <<resource, entries>> pairs
RECURSIVE GroupFrom(_, _)
GroupFrom(endpoints, groups) ==
    IF endpoints = <<>> THEN groups
    ELSE LET ep == Head(endpoints)
             resource == CatalogResource(ep.path)
             known == \E i \in DOMAIN groups : groups[i].resource = resource
             added == IF known THEN groups
                      ELSE Append(groups, [resource |-> resource, entries |-> <<>>])
         IN GroupFrom(Tail(endpoints),
                [i \in DOMAIN added |->
                    IF added[i].resource = resource
                    THEN [added[i] EXCEPT !.entries = Append(@, CatalogEntry(ep))]
                    ELSE added[i]])

\* a plausible slip: the total counts the groups
BuildCatalogTotalOfGroups(endpoints) ==
    LET groups == GroupFrom(endpoints, <<>>)
    IN [total_endpoints |-> Len(groups), resources |-> groups,
        resource_count |-> Len(groups)]

BuildCatalog(endpoints) ==
    LET groups == GroupFrom(endpoints, <<>>)
    IN [total_endpoints |-> Len(endpoints), resources |-> groups,
        resource_count |-> Len(groups)]

(***************************************************************************)
(* The Web Fetcher, as discover_from_web_node and endpoint_extractor_node  *)
(* see it: the page lists try_sitemap and simple_crawl may return.  A      *)
(* sitemap page has no "content" key; page.get("content", "") reads "".    *)
(***************************************************************************)
NoContent == "no_content"

Page(url, content, source) == [url |-> url, content |-> content, source |-> source]

SitemapOutcomes ==
    { <<>>,
      <<Page("u1", NoContent, "sitemap")>>,
      <<Page("u1", NoContent, "sitemap"), Page("u2", NoContent, "sitemap")>> }

CrawlOutcomes ==
    { <<>>,
      <<Page("root", "docs_regex", "crawl")>>,
      <<Page("root", "docs_plain", "crawl"), Page("u1", "docs_regex", "crawl")>> }

\* re.findall of the three patterns over a page's text, pattern by pattern:
\* docs_regex reads "get /api/a ... `POST /a ?x` ... DELETE /v1/{id} ... `GET ?x`"
RegexMatches(content) ==
    IF content = "docs_regex"
    THEN << [method |-> <<"g", "e", "t">>, path |-> <<"/", "a", "p", "i", "/", "a">>],
            [method |-> <<"P", "O", "S", "T">>, path |-> <<"/", "a", " ", "?", "x">>],
            [method |-> <<"D", "E", "L", "E", "T", "E">>, path |-> <<"/", "v", "1", "/", "{", "i", "d", "}">>],
            [method |-> <<"G", "E", "T">>, path |-> <<"?", "x">>] >>
    ELSE <<>>

RegexEndpoints(content, server_url) ==
    LET found == RegexMatches(content)
    IN [i \in DOMAIN found |->
          RawEndpoint(Upper(found[i].method), found[i].path, server_url,
                      <<>>, <<>>, EmptyBody, "regex")]

\* content = page.get("content", ""); if not content: continue -- the regexes
\* and the oracle are applied to a page only if it carries text
PageIsRead(page) == page.content # NoContent

\* the loop of endpoint_extractor_node over the pages, from the list built so far
RECURSIVE ExtractFrom(_, _, _)
ExtractFrom(pages, server_url, acc) ==
    IF pages = <<>> THEN {acc}
    ELSE IF ~PageIsRead(Head(pages))
    THEN ExtractFrom(Tail(pages), server_url, acc)
    ELSE LET withRegex == acc \o RegexEndpoints(Head(pages).content, server_url)
         IN UNION { ExtractFrom(Tail(pages), server_url,
                                withRegex \o LlmExtractEndpoints(o)) :
                       o \in OracleOutcomes(MaxRaw - Len(withRegex)) }

(***************************************************************************)
(* The graphs (build_discovery_graph, build_generation_graph) as edge      *)
(* tables, and what build_full_workflow compiles them with.                *)
(***************************************************************************)
END == "END"

DiscoveryNodes ==
    {"classify_input", "parse_files", "discover_from_web", "endpoint_extractor",
     "normalize_and_dedup", "summarize_for_ui"}

DiscoveryEntry == "classify_input"

\* path_map of the conditional edge out of classify_input
DiscoveryPathMap == [file |-> "parse_files", url |-> "discover_from_web"]

\* the unconditional edges
DiscoveryEdges ==
    [parse_files |-> "endpoint_extractor",
     discover_from_web |-> "endpoint_extractor",
     endpoint_extractor |-> "normalize_and_dedup",
     normalize_and_dedup |-> "summarize_for_ui",
     summarize_for_ui |-> END]

\* interrupt_before of the compiled discovery graph
DiscoveryInterruptBefore == {"interrupt_for_selection"}

\* the channels of DiscoveryState
DiscoveryStateKeys == {"input", "discovery"}

GenerationNodes ==
    {"plan_work", "fetch_docs", "schema_synthesis", "compose_tool", "validate",
     "aggregate_tools", "interrupt_for_review", "finalize"}

GenerationEntry == "plan_work"

\* a plausible slip: validate and compose_tool wired in the other order
GenerationEdgesSwapped ==
    [plan_work |-> "fetch_docs",
     fetch_docs |-> "schema_synthesis",
     schema_synthesis |-> "validate",
     validate |-> "compose_tool",
     compose_tool |-> "aggregate_tools",
     aggregate_tools |-> "interrupt_for_review",
     interrupt_for_review |-> "finalize",
     finalize |-> END]

GenerationEdges ==
    [plan_work |-> "fetch_docs",
     fetch_docs |-> "schema_synthesis",
     schema_synthesis |-> "compose_tool",
     compose_tool |-> "validate",
     validate |-> "aggregate_tools",
     aggregate_tools |-> "interrupt_for_review",
     interrupt_for_review |-> "finalize",
     finalize |-> END]

\* interrupt_before of the compiled generation graph
GenerationInterruptBefore == {"interrupt_for_review"}

\* the channels of GenerationState
GenerationStateKeys == {"selection", "generation"}

(***************************************************************************)
(* The engine (the compiled graph's stream and update_state).              *)
(*                                                                         *)
(* A thread is idle (no checkpoint yet), running (inside a stream call),   *)
(* suspended (the stream call returned before an interrupt point), ended   *)
(* (the cursor reached END) or failed (a node raised and stream re-raised: *)
(* the checkpoint stays the one written after the last completed step).    *)
(***************************************************************************)
\* where a stream call stands once the cursor is `next`: it stops before a
\* node named in interrupt_before, and at END
StatusAt(next, nodes, interrupt_before) ==
    IF next = END THEN "ended"
    ELSE IF next \in interrupt_before /\ next \in nodes THEN "suspended"
    ELSE "running"

\* update_state(config, values, as_node): refused for a node the graph does not have
UpdateStateAccepted(nodes, as_node) == as_node \in nodes

\* the part of an update that reaches the thread's state: a key that is no
\* channel of the state schema is not written
UpdateWritten(state_keys, update_keys) == update_keys \cap state_keys

(***************************************************************************)
(* State.                                                                  *)
(***************************************************************************)
VARIABLES
    \* the Discovery thread ("discovery-session")
    d_run,        \* idle | running | suspended | ended | failed
    d_next,       \* the cursor: the next step to run, or END
    d_steps,      \* the steps executed so far, in order
    d_routes,     \* the results of route_by_input_type, one per evaluation
    d_input,      \* state["input"]
    discovery,    \* state["discovery"]
    d_selection,  \* what the thread's state holds under "selection"
    d_resumes,    \* the calls of resume_discovery_with_selection so far
    \* the Generation thread ("generation-session")
    g_run,        \* idle | running | suspended | ended | failed
    g_next,       \* the cursor
    g_steps,      \* the steps executed so far, in order
    selection,    \* state["selection"]
    generation,   \* state["generation"]
    g_resuming,   \* the stream call under way was given no input (stream(None, config))
    g_calls,      \* the resume calls made so far, in order
    g_results,    \* the snapshots the completed resume calls returned, in order
    gen_state,    \* the snapshot run_generation returned
    \* a helper or node function called on its own
    call          \* the function, the arguments it was given and what it returned

d_vars == <<d_run, d_next, d_steps, d_routes, d_input, discovery, d_selection, d_resumes>>
g_vars == <<g_run, g_next, g_steps, selection, generation, g_resuming, g_calls,
            g_results, gen_state>>
vars == <<d_vars, g_vars, call>>

\* a dictionary key that is not set
Unset == "unset"

(***************************************************************************)
(* Discovery: inputs and nodes.                                            *)
(***************************************************************************)
NoUrl == "no_root_url"

RootUrls == {"https://docs.x.com"}

ServerUrls == {<<>>, ApiXCom}

\* discovery_input["input"] of run_discovery_from_files and run_discovery_from_url;
\* the last one is a run given neither files nor a root URL
DiscoveryInputs ==
    {[files |-> f, root_url |-> NoUrl, server_url |-> s] : f \in FileLists, s \in ServerUrls}
    \cup {[files |-> <<>>, root_url |-> u, server_url |-> s] : u \in RootUrls, s \in ServerUrls}
    \cup {[files |-> <<>>, root_url |-> NoUrl, server_url |-> <<>>]}

\* discovery = {} as the run functions pass it
EmptyDiscovery ==
    [input_type |-> Unset, pages |-> <<>>, endpoints_raw |-> <<>>,
     endpoints_normalized |-> <<>>, catalog |-> Unset]

\* a plausible slip: the test reads the root URL, so a run given neither input is "file"
classify_input_by_url(input) ==
    [input_type |-> IF input.root_url = NoUrl THEN "file" ELSE "url",
     pages |-> <<>>, endpoints_raw |-> <<>>,
     endpoints_normalized |-> <<>>, catalog |-> <<>>]

\* classify_input_node: the new discovery dictionary
classify_input_node(input) ==
    [input_type |-> IF input.files # <<>> THEN "file" ELSE "url",
     pages |-> <<>>, endpoints_raw |-> <<>>,
     endpoints_normalized |-> <<>>, catalog |-> <<>>]

\* state["discovery"].get("input_type", "file")
route_by_input_type(disc) ==
    IF disc.input_type = Unset THEN "file" ELSE disc.input_type

StartDiscovery ==
    /\ d_run = "idle"
    /\ \E input \in DiscoveryInputs :
          /\ d_input' = input
          /\ discovery' = EmptyDiscovery
    /\ d_next' = DiscoveryEntry
    /\ d_run' = StatusAt(DiscoveryEntry, DiscoveryNodes, DiscoveryInterruptBefore)
    /\ UNCHANGED <<d_steps, d_routes, d_selection, d_resumes, g_vars, call>>

\* a step of the discovery graph that ran `node`, left `disc` and moves on to `next`
DiscoveryStep(node, disc, next) ==
    /\ discovery' = disc
    /\ d_steps' = Append(d_steps, node)
    /\ d_next' = next
    /\ d_run' = StatusAt(next, DiscoveryNodes, DiscoveryInterruptBefore)
    /\ UNCHANGED <<d_input, d_selection, d_resumes, g_vars, call>>

\* classify_input, then the conditional edge: the routing function is evaluated
\* on the state the node left, and its result looked up in the path map
ClassifyInput ==
    /\ d_run = "running" /\ d_next = "classify_input"
    /\ LET disc == classify_input_node(d_input)
           route == route_by_input_type(disc)
       IN /\ d_routes' = Append(d_routes, route)
          /\ route \in DOMAIN DiscoveryPathMap
          /\ DiscoveryStep("classify_input", disc, DiscoveryPathMap[route])

ParseFiles ==
    /\ d_run = "running" /\ d_next = "parse_files"
    /\ \E raw \in ParseFrom(d_input.files, <<>>) :
          DiscoveryStep("parse_files", [discovery EXCEPT !.endpoints_raw = raw],
                        DiscoveryEdges["parse_files"])
    /\ UNCHANGED d_routes

\* discover_from_web_node: no root URL, the state is returned as it is; else
\* the sitemap's pages, or the crawl's when the sitemap gave none
DiscoverFromWeb ==
    /\ d_run = "running" /\ d_next = "discover_from_web"
    /\ IF d_input.root_url = NoUrl
       THEN DiscoveryStep("discover_from_web", discovery, DiscoveryEdges["discover_from_web"])
       ELSE \E sitemap \in SitemapOutcomes, crawl \in CrawlOutcomes :
              LET pages == IF sitemap # <<>> THEN sitemap ELSE crawl
              IN DiscoveryStep("discover_from_web", [discovery EXCEPT !.pages = pages],
                               DiscoveryEdges["discover_from_web"])
    /\ UNCHANGED d_routes

EndpointExtractor ==
    /\ d_run = "running" /\ d_next = "endpoint_extractor"
    /\ IF discovery.pages = <<>>
       THEN DiscoveryStep("endpoint_extractor", discovery,
                          DiscoveryEdges["endpoint_extractor"])
       ELSE \E raw \in ExtractFrom(discovery.pages, d_input.server_url,
                                   discovery.endpoints_raw) :
              DiscoveryStep("endpoint_extractor", [discovery EXCEPT !.endpoints_raw = raw],
                            DiscoveryEdges["endpoint_extractor"])
    /\ UNCHANGED d_routes

NormalizeAndDedup ==
    /\ d_run = "running" /\ d_next = "normalize_and_dedup"
    /\ DiscoveryStep("normalize_and_dedup",
                     [discovery EXCEPT !.endpoints_normalized =
                         NormalizeEndpoints(discovery.endpoints_raw, d_input.server_url)],
                     DiscoveryEdges["normalize_and_dedup"])
    /\ UNCHANGED d_routes

SummarizeForUi ==
    /\ d_run = "running" /\ d_next = "summarize_for_ui"
    /\ DiscoveryStep("summarize_for_ui",
                     [discovery EXCEPT !.catalog = BuildCatalog(discovery.endpoints_normalized)],
                     DiscoveryEdges["summarize_for_ui"])
    /\ UNCHANGED d_routes

\* the lists of endpoint ids a caller may select: main selects every id
SelectedIds(endpoints) == {{endpoints[i].id : i \in DOMAIN endpoints}}

\* resume_discovery_with_selection: update_state as node interrupt_for_selection,
\* then stream(None, config).  The discovery graph has no such node: update_state
\* raises, nothing is written and the stream call is never reached.
ResumeDiscoveryWithSelection ==
    /\ d_run \in {"suspended", "ended"}
    /\ d_resumes < MaxResumes
    /\ d_resumes' = d_resumes + 1
    /\ \E ids \in SelectedIds(discovery.endpoints_normalized) :
          IF UpdateStateAccepted(DiscoveryNodes, "interrupt_for_selection")
          THEN /\ d_selection' =
                    IF "selection" \in UpdateWritten(DiscoveryStateKeys, {"selection"})
                    THEN [stored |-> TRUE, endpoint_ids |-> ids] ELSE d_selection
               /\ d_next' = END
               /\ d_run' = "ended"
          ELSE UNCHANGED <<d_selection, d_next, d_run>>
    /\ UNCHANGED <<d_steps, d_routes, d_input, discovery, g_vars, call>>

DiscoveryNext ==
    \/ StartDiscovery
    \/ ClassifyInput
    \/ ParseFiles
    \/ DiscoverFromWeb
    \/ EndpointExtractor
    \/ NormalizeAndDedup
    \/ SummarizeForUi
    \/ ResumeDiscoveryWithSelection

(***************************************************************************)
(* JSON values (the schemas the Schema-Synthesis Oracle returns and the    *)
(* helpers walk): a dictionary is a function from its keys, a list a       *)
(* sequence, and every value carries its Python type, which the helpers    *)
(* test with isinstance.                                                   *)
(***************************************************************************)
Dict(f) == [t |-> "dict", v |-> f]
List(s) == [t |-> "list", v |-> s]
Str(s) == [t |-> "str", v |-> s]
Bool(b) == [t |-> "bool", v |-> b]

\* {}
EmptyDict == Dict([k \in {} |-> Bool(FALSE)])

IsDict(x) == x.t = "dict"
IsList(x) == x.t = "list"

\* key in obj
HasKey(obj, key) == key \in DOMAIN obj.v

\* obj[key] = value
WithKey(obj, key, value) ==
    Dict([k \in (DOMAIN obj.v) \cup {key} |-> IF k = key THEN value ELSE obj.v[k]])

\* the keys the model's schemas use, in a fixed order: list(d.keys()) lists the
\* keys of d in this order
KeyOrder ==
    <<"type", "properties", "items", "allOf", "oneOf", "anyOf", "not", "enum",
      "required", "visible", "additionalProperties", "a", "b", "c">>

\* list(d.keys())
KeysOf(d) == SelectSeq(KeyOrder, LAMBDA k : k \in DOMAIN d.v)

\* x == s, for a value x of any type
IsStr(x, s) == x.t = "str" /\ x.v = s

(***************************************************************************)
(* enhance_schema_with_metadata.                                           *)
(***************************************************************************)
\* obj.get("type") == "object" or (isinstance(obj.get("type"), list) and
\* "object" in obj.get("type"))
IsObjectTyped(obj) ==
    /\ HasKey(obj, "type")
    /\ \/ IsStr(obj.v.type, "object")
       \/ /\ IsList(obj.v.type)
          /\ \E i \in DOMAIN obj.v.type.v : IsStr(obj.v.type.v[i], "object")

\* obj.get("properties", {})
PropertiesOf(obj) == IF HasKey(obj, "properties") THEN obj.v.properties ELSE EmptyDict

\* a plausible slip: visible is added only where required was missing too
AddMetadataUnlessRequired(obj, is_flexible) ==
    IF HasKey(obj, "required") THEN obj
    ELSE LET properties == PropertiesOf(obj)
             o1 == IF ~HasKey(obj, "visible") /\ DOMAIN properties.v # {}
                   THEN WithKey(obj, "visible",
                                List([i \in DOMAIN KeysOf(properties) |->
                                        Str(KeysOf(properties)[i])]))
                   ELSE obj
             o2 == WithKey(o1, "required", List(<<>>))
         IN IF ~HasKey(o2, "additionalProperties")
            THEN WithKey(o2, "additionalProperties", Bool(is_flexible))
            ELSE o2

\* a plausible slip: required is set to the empty list whether present or not
AddMetadataResetsRequired(obj, is_flexible) ==
    LET properties == PropertiesOf(obj)
        o1 == IF ~HasKey(obj, "visible") /\ DOMAIN properties.v # {}
              THEN WithKey(obj, "visible",
                           List([i \in DOMAIN KeysOf(properties) |->
                                   Str(KeysOf(properties)[i])]))
              ELSE obj
        o2 == WithKey(o1, "required", List(<<>>))
    IN IF ~HasKey(o2, "additionalProperties")
       THEN WithKey(o2, "additionalProperties", Bool(is_flexible))
       ELSE o2

\* a plausible slip: additionalProperties is false whatever the endpoint
AddMetadataAlwaysStrict(obj, is_flexible) ==
    LET properties == PropertiesOf(obj)
        o1 == IF ~HasKey(obj, "visible") /\ DOMAIN properties.v # {}
              THEN WithKey(obj, "visible",
                           List([i \in DOMAIN KeysOf(properties) |->
                                   Str(KeysOf(properties)[i])]))
              ELSE obj
        o2 == IF ~HasKey(o1, "required") THEN WithKey(o1, "required", List(<<>>)) ELSE o1
    IN IF ~HasKey(o2, "additionalProperties")
       THEN WithKey(o2, "additionalProperties", Bool(FALSE))
       ELSE o2

\* the three "if ... not in obj" of process_object on an object-typed node
AddMetadata(obj, is_flexible) ==
    LET properties == PropertiesOf(obj)
        o1 == IF ~HasKey(obj, "visible") /\ DOMAIN properties.v # {}
              THEN WithKey(obj, "visible",
                           List([i \in DOMAIN KeysOf(properties) |->
                                   Str(KeysOf(properties)[i])]))
              ELSE obj
        o2 == IF ~HasKey(o1, "required") THEN WithKey(o1, "required", List(<<>>)) ELSE o1
    IN IF ~HasKey(o2, "additionalProperties")
       THEN WithKey(o2, "additionalProperties", Bool(is_flexible))
       ELSE o2

CompositionKeys == <<"allOf", "oneOf", "anyOf">>

RECURSIVE process_object(_, _)
process_object(obj, is_flexible) ==
    IF ~IsDict(obj) THEN obj
    ELSE LET typed ==
               IF IsObjectTyped(obj)
               THEN LET o == AddMetadata(obj, is_flexible)
                    IN IF HasKey(o, "properties")
                       THEN WithKey(o, "properties",
                                Dict([k \in DOMAIN o.v.properties.v |->
                                        process_object(o.v.properties.v[k], FALSE)]))
                       ELSE o
               ELSE IF /\ HasKey(obj, "type") /\ IsStr(obj.v.type, "array")
                       /\ HasKey(obj, "items") /\ IsDict(obj.v.items)
               THEN WithKey(obj, "items", process_object(obj.v.items, FALSE))
               ELSE obj
             Composed(o, key) ==
               IF HasKey(o, key) /\ IsList(o.v[key])
               THEN WithKey(o, key,
                        List([i \in DOMAIN o.v[key].v |->
                                process_object(o.v[key].v[i], is_flexible)]))
               ELSE o
         IN Composed(Composed(Composed(typed, CompositionKeys[1]), CompositionKeys[2]),
                     CompositionKeys[3])

(***************************************************************************)
(* remove_custom_fields.                                                   *)
(***************************************************************************)
\* a plausible slip: a list inside a list is spliced into the outer list
RECURSIVE CleanListFlattening(_, _)
CleanListFlattening(items, cleaned) ==
    IF items = <<>> THEN <<>>
    ELSE LET item == Head(items)
             rest == CleanListFlattening(Tail(items), Tail(cleaned))
         IN IF IsDict(item) THEN <<Head(cleaned)>> \o rest
            ELSE IF IsList(item) THEN item.v \o rest
            ELSE <<item>> \o rest

\* [clean_object(item) if isinstance(item, dict) else item for item in value];
\* cleaned holds clean_object(item) for the items that are dictionaries
CleanList(items, cleaned) ==
    [i \in DOMAIN items |-> IF IsDict(items[i]) THEN cleaned[i] ELSE items[i]]

RECURSIVE clean_object(_)
clean_object(obj) ==
    IF ~IsDict(obj) THEN obj
    ELSE Dict([key \in (DOMAIN obj.v) \ {"visible"} |->
                 LET value == obj.v[key]
                 IN IF IsDict(value) THEN clean_object(value)
                    ELSE IF IsList(value)
                    THEN List(CleanList(value.v,
                                 [i \in DOMAIN value.v |->
                                    IF IsDict(value.v[i]) THEN clean_object(value.v[i])
                                    ELSE value.v[i]]))
                    ELSE value])

\* clean_object(copy.deepcopy(schema))
remove_custom_fields(schema) == clean_object(schema)

(***************************************************************************)
(* jsonschema.Draft7Validator.check_schema: the schema is checked against  *)
(* the Draft-07 metaschema.  Keywords the metaschema does not know, such   *)
(* as visible, are accepted with any value.                                *)
(***************************************************************************)
SimpleTypes == {"array", "boolean", "integer", "null", "number", "object", "string"}

IsSimpleType(x) == x.t = "str" /\ x.v \in SimpleTypes

RECURSIVE ValidSchema(_)
ValidSchema(s) ==
    \/ s.t = "bool"
    \/ /\ IsDict(s)
       /\ HasKey(s, "type") =>
             \/ IsSimpleType(s.v.type)
             \/ /\ IsList(s.v.type) /\ s.v.type.v # <<>>
                /\ \A i \in DOMAIN s.v.type.v : IsSimpleType(s.v.type.v[i])
       /\ HasKey(s, "properties") =>
             /\ IsDict(s.v.properties)
             /\ \A k \in DOMAIN s.v.properties.v : ValidSchema(s.v.properties.v[k])
       /\ HasKey(s, "items") =>
             \/ ValidSchema(s.v.items)
             \/ /\ IsList(s.v.items)
                /\ \A i \in DOMAIN s.v.items.v : ValidSchema(s.v.items.v[i])
       /\ \A n \in DOMAIN CompositionKeys :
             HasKey(s, CompositionKeys[n]) =>
                LET members == s.v[CompositionKeys[n]]
                IN /\ IsList(members) /\ members.v # <<>>
                   /\ \A i \in DOMAIN members.v : ValidSchema(members.v[i])
       /\ HasKey(s, "not") => ValidSchema(s.v["not"])
       /\ HasKey(s, "additionalProperties") => ValidSchema(s.v.additionalProperties)
       /\ HasKey(s, "required") =>
             /\ IsList(s.v.required)
             /\ \A i \in DOMAIN s.v.required.v : s.v.required.v[i].t = "str"
       /\ HasKey(s, "enum") => IsList(s.v.enum)

\* check_schema raises SchemaError
SchemaError(schema) == ~ValidSchema(schema)

(***************************************************************************)
(* The draft schemas the Schema-Synthesis Oracle may return.               *)
(***************************************************************************)
StringSchema == Dict([type |-> Str("string")])

\* an object with one property
ObjectSchema == Dict([type |-> Str("object"), properties |-> Dict([c |-> StringSchema])])

\* an object inside an object
NestedSchema ==
    Dict([type |-> Str("object"),
          properties |-> Dict([a |-> StringSchema, b |-> ObjectSchema])])

\* an object that declares no properties
BareObjectSchema == Dict([type |-> Str("object")])

ArraySchema == Dict([type |-> Str("array"), items |-> ObjectSchema])

\* a nullable object with alternatives
AnyOfSchema ==
    Dict([type |-> List(<<Str("object"), Str("null")>>),
          anyOf |-> List(<<ObjectSchema, StringSchema>>)])

\* visible given by the oracle, and an enum whose values are lists of objects
EnumSchema ==
    Dict([type |-> Str("object"),
          properties |-> Dict([a |-> StringSchema]),
          visible |-> List(<<Str("a")>>),
          enum |-> List(<< List(<< Dict([visible |-> List(<<>>), a |-> Str("x")]) >>) >>)])

\* nothing is missing
CompleteSchema ==
    Dict([type |-> Str("object"),
          properties |-> Dict([a |-> StringSchema]),
          required |-> List(<<Str("a")>>),
          visible |-> List(<<Str("a")>>),
          additionalProperties |-> Bool(TRUE)])

\* required given, the rest missing
RequiredOnlySchema ==
    Dict([type |-> Str("object"),
          properties |-> Dict([a |-> StringSchema]),
          required |-> List(<<Str("a")>>)])

\* an object under a keyword other than properties, items, allOf, oneOf, anyOf
NotSchema == Dict([type |-> Str("string"), not |-> ObjectSchema])

\* a property whose type is no JSON Schema type
MalformedSchema ==
    Dict([type |-> Str("object"),
          properties |-> Dict([a |-> Dict([type |-> Str("text")])])])

\* the oracle returned a list
ListSchema == List(<<ObjectSchema>>)

\* an object that must also match a nested object schema
AllOfSchema ==
    Dict([type |-> Str("object"),
          properties |-> Dict([a |-> StringSchema]),
          allOf |-> List(<<NestedSchema>>)])

\* an object one of whose properties is named visible
VisiblePropertySchema ==
    Dict([type |-> Str("object"),
          properties |-> Dict([a |-> StringSchema,
                               visible |-> Dict([type |-> Str("boolean")])])])

DraftSchemas ==
    { StringSchema, ObjectSchema, NestedSchema, BareObjectSchema, ArraySchema,
      AnyOfSchema, EnumSchema, CompleteSchema, RequiredOnlySchema, NotSchema,
      MalformedSchema, ListSchema, AllOfSchema, VisiblePropertySchema }

\* the call of a helper on its own that has not been made
NoCall == [fn |-> "none"]

(***************************************************************************)
(* Naming helpers of generation/helpers.py.                                *)
(***************************************************************************)
LowerChar(c) ==
    IF \E i \in DOMAIN UpperLetters : UpperLetters[i] = c
    THEN LowerLetters[CHOOSE i \in DOMAIN UpperLetters : UpperLetters[i] = c]
    ELSE c

\* str.lower()
Lower(s) == [i \in DOMAIN s |-> LowerChar(s[i])]

\* sub in s
Contains(s, sub) ==
    \E i \in 1..(Len(s) - Len(sub) + 1) : SubSeq(s, i, i + Len(sub) - 1) = sub

\* extract_resource: the first segment that is not empty and does not start
\* with "v" or "{", or "resource"
extract_resource(path) ==
    LET parts == SelectSeq(SplitSlash(path),
                           LAMBDA p : p # <<>> /\ Head(p) # "v" /\ Head(p) # "{")
    IN IF parts # <<>> THEN parts[1] ELSE <<"r", "e", "s", "o", "u", "r", "c", "e">>

\* a plausible slip: "/list" is looked for as written, in lower case only
determine_verb_list_as_written(method, path) ==
    IF Contains(Lower(path), <<"/", "s", "e", "a", "r", "c", "h">>) \/ Contains(Lower(path), <<"/", "f", "i", "n", "d">>) THEN <<"s", "e", "a", "r", "c", "h">>
    ELSE IF Contains(path, <<"/", "l", "i", "s", "t">>) THEN <<"l", "i", "s", "t">>
    ELSE IF Upper(method) = <<"G", "E", "T">>
         THEN (IF Contains(path, <<"{">>) THEN <<"g", "e", "t">> ELSE <<"l", "i", "s", "t">>)
    ELSE IF Upper(method) = <<"P", "O", "S", "T">> THEN <<"c", "r", "e", "a", "t", "e">>
    ELSE IF Upper(method) \in {<<"P", "U", "T">>, <<"P", "A", "T", "C", "H">>} THEN <<"u", "p", "d", "a", "t", "e">>
    ELSE IF Upper(method) = <<"D", "E", "L", "E", "T", "E">> THEN <<"d", "e", "l", "e", "t", "e">>
    ELSE <<"e", "x", "e", "c", "u", "t", "e">>

\* determine_verb: re.search(r"/(search|find)", path, re.IGNORECASE), then
\* re.search(r"/list", path, re.IGNORECASE), then verb_map.get(method.upper(), "execute")
determine_verb(method, path) ==
    IF Contains(Lower(path), <<"/", "s", "e", "a", "r", "c", "h">>) \/ Contains(Lower(path), <<"/", "f", "i", "n", "d">>) THEN <<"s", "e", "a", "r", "c", "h">>
    ELSE IF Contains(Lower(path), <<"/", "l", "i", "s", "t">>) THEN <<"l", "i", "s", "t">>
    ELSE IF Upper(method) = <<"G", "E", "T">>
         THEN (IF Contains(path, <<"{">>) THEN <<"g", "e", "t">> ELSE <<"l", "i", "s", "t">>)
    ELSE IF Upper(method) = <<"P", "O", "S", "T">> THEN <<"c", "r", "e", "a", "t", "e">>
    ELSE IF Upper(method) \in {<<"P", "U", "T">>, <<"P", "A", "T", "C", "H">>} THEN <<"u", "p", "d", "a", "t", "e">>
    ELSE IF Upper(method) = <<"D", "E", "L", "E", "T", "E">> THEN <<"d", "e", "l", "e", "t", "e">>
    ELSE <<"e", "x", "e", "c", "u", "t", "e">>

\* the longest first sentence generate_display_name_fallback returns
DisplayNameLimit == 50

\* description.split(".")[0]: the text before the first period
RECURSIVE BeforePeriod(_)
BeforePeriod(s) ==
    IF s = <<>> THEN <<>>
    ELSE IF Head(s) = "." THEN <<>>
    ELSE <<Head(s)>> \o BeforePeriod(Tail(s))

\* str.replace("_", " ")
UnderscoresToSpaces(s) == [i \in DOMAIN s |-> IF s[i] = "_" THEN " " ELSE s[i]]

IsLetter(c) ==
    \/ \E i \in DOMAIN LowerLetters : LowerLetters[i] = c
    \/ \E i \in DOMAIN UpperLetters : UpperLetters[i] = c

\* str.title(): a letter that follows a letter is lowered, any other letter raised
Title(s) ==
    [i \in DOMAIN s |->
        IF i > 1 /\ IsLetter(s[i - 1]) THEN LowerChar(s[i]) ELSE UpperChar(s[i])]

\* a plausible slip: the limit is exclusive
generate_display_name_fallback_below_limit(method, path, description) ==
    LET first_sentence == Strip(BeforePeriod(description))
    IN IF /\ description # <<>>
          /\ Len(first_sentence) < DisplayNameLimit
          /\ first_sentence # <<>>
       THEN first_sentence
       ELSE Title(UnderscoresToSpaces(determine_verb(method, path))) \o <<" ">>
               \o Title(UnderscoresToSpaces(extract_resource(path)))

\* generate_display_name_fallback
generate_display_name_fallback(method, path, description) ==
    LET first_sentence == Strip(BeforePeriod(description))
    IN IF /\ description # <<>>
          /\ Len(first_sentence) <= DisplayNameLimit
          /\ first_sentence # <<>>
       THEN first_sentence
       ELSE Title(UnderscoresToSpaces(determine_verb(method, path))) \o <<" ">>
               \o Title(UnderscoresToSpaces(extract_resource(path)))

(***************************************************************************)
(* Generation: inputs.                                                     *)
(***************************************************************************)
\* the normalized endpoint lists a caller may hand to run_generation
EndpointLists ==
    { <<>>,
      \* from an OpenAPI file, the run's server URL an http one
      NormalizeEndpoints(extract_openapi_endpoints(UsersDoc), ApiXCom),
      \* from the OpenAPI file with the one operation GET /users
      NormalizeEndpoints(extract_openapi_endpoints(UsersListDoc), ApiXCom),
      \* from the oracle, no server URL
      NormalizeEndpoints(
          LlmExtractEndpoints([raised |-> FALSE, endpoints |->
              << [method |-> <<"g", "e", "t">>, path |-> <<"/", "a">>, server |-> <<>>,
                  description |-> <<"x">>, parameters |-> <<>>],
                 [method |-> <<"p", "o", "s", "t">>, path |-> <<"/", "a">>, server |-> <<>>,
                  description |-> <<>>, parameters |-> <<>>] >>]),
          <<>>) }

\* the server URL a caller hands to run_generation: none (main.run_generation
\* has no such argument) or one that differs from the endpoints' own
ApiYCom == <<"h", "t", "t", "p", "s", ":", "/", "/", "a", "p", "i", ".", "y", ".", "c", "o", "m">>
SuppliedServerUrls == {<<>>, ApiYCom}

\* an id no endpoint has
UnknownId == 0

\* [ep["id"] for ep in endpoints], or any other choice of ids
IdChoices(endpoints) == SUBSET ({endpoints[i].id : i \in DOMAIN endpoints} \cup {UnknownId})

\* generation = {} as run_generation passes it
EmptyGeneration ==
    [work_items |-> <<>>, tools |-> <<>>, errors |-> <<>>,
     status |-> Unset, final_count |-> Unset]

\* the tool lists a caller may send back as edited_tools; [] is "no edits"
EditedToolLists ==
    { <<>>,
      << [name |-> "X__USERS__LIST", validated |-> TRUE] >>,
      << [name |-> "X__USERS__LIST", validated |-> TRUE],
         [name |-> "X__USERS__CREATE", validated |-> TRUE] >> }

\* what get_state(config) returns: the thread's values and its cursor
Snapshot(sel, gen, next) == [selection |-> sel, generation |-> gen, next |-> next]

(***************************************************************************)
(* Generation: nodes.                                                      *)
(***************************************************************************)
\* a plausible slip: the selection is not looked at
plan_work_node_all(sel) ==
    [work_items |-> [i \in DOMAIN sel.endpoints |->
                       [id |-> sel.endpoints[i].id, endpoint |-> sel.endpoints[i],
                        status |-> "pending", full_docs |-> Unset, schema |-> Unset]],
     tools |-> <<>>, errors |-> <<>>, status |-> Unset, final_count |-> Unset]

\* plan_work_node
plan_work_node(sel) ==
    LET chosen == SelectSeq(sel.endpoints, LAMBDA e : e.id \in sel.endpoint_ids)
    IN [work_items |-> [i \in DOMAIN chosen |->
                          [id |-> chosen[i].id, endpoint |-> chosen[i],
                           status |-> "pending", full_docs |-> Unset, schema |-> Unset]],
        tools |-> <<>>, errors |-> <<>>, status |-> Unset, final_count |-> Unset]

\* server.startswith("http")
StartsWithHttp(server) ==
    Len(server) >= 4 /\ SubSeq(server, 1, 4) = <<"h", "t", "t", "p">>

\* fetch_docs_node asks for more documentation unless the endpoint is an OpenAPI
\* one with a request body, or its server is no http URL
FetchAttempted(endpoint) ==
    /\ ~(endpoint.source = "openapi" /\ endpoint.requestBody.keys # {})
    /\ StartsWithHttp(endpoint.server)

\* fetch_with_retry(server): the documentation text, or nothing once the retries
\* are used up
FetchOutcomes == {"text", "nothing"}

\* item["full_docs"]: the endpoint itself, or the text fetch_with_retry returned
FullDocs(endpoint, outcome) ==
    IF FetchAttempted(endpoint) /\ outcome = "text" THEN "text" ELSE "endpoint"

fetch_docs_node(gen, outcomes) ==
    [gen EXCEPT !.work_items =
        [i \in DOMAIN gen.work_items |->
            [gen.work_items[i] EXCEPT
                !.full_docs = FullDocs(gen.work_items[i].endpoint, outcomes[i])]]]

\* the Schema-Synthesis Oracle: a draft schema, or a failure
SynthesisFailure == [t |-> "raised"]
Failed(outcome) == outcome.t = "raised"
\* the drafts the oracle returns in the runs of the graph
RunDrafts == {NestedSchema, MalformedSchema}
SynthesisOutcomes == RunDrafts \cup {SynthesisFailure}

\* bool(endpoint.get("requestBody", {}).get("content"))
IsFlexibleEndpoint(endpoint) == endpoint.requestBody.content # {}

enhance_schema_with_metadata(schema, endpoint) ==
    process_object(schema, IsFlexibleEndpoint(endpoint))

\* indexing the documentation text with ["method"] raises inside the try, and
\* the handler's endpoint['id'] raises again: the node raises
SchemaSynthesisRaises(gen) ==
    \E i \in DOMAIN gen.work_items : gen.work_items[i].full_docs = "text"

RECURSIVE SynthesisErrors(_, _)
SynthesisErrors(items, outcomes) ==
    IF items = <<>> THEN <<>>
    ELSE (IF Failed(Head(outcomes))
          THEN << [endpoint_id |-> Head(items).endpoint.id, stage |-> "schema_synthesis"] >>
          ELSE <<>>)
         \o SynthesisErrors(Tail(items), Tail(outcomes))

\* a plausible slip: an item whose synthesis failed is reported but keeps its
\* status
schema_synthesis_node_failed_stay_pending(gen, outcomes) ==
    [gen EXCEPT
        !.work_items =
            [i \in DOMAIN gen.work_items |->
                IF Failed(outcomes[i])
                THEN gen.work_items[i]
                ELSE [gen.work_items[i] EXCEPT
                        !.schema = enhance_schema_with_metadata(
                                      outcomes[i], gen.work_items[i].endpoint),
                        !.status = "schema_generated"]],
        !.errors = @ \o SynthesisErrors(gen.work_items, outcomes)]

schema_synthesis_node(gen, outcomes) ==
    [gen EXCEPT
        !.work_items =
            [i \in DOMAIN gen.work_items |->
                IF Failed(outcomes[i])
                THEN [gen.work_items[i] EXCEPT !.status = "error"]
                ELSE [gen.work_items[i] EXCEPT
                        !.schema = enhance_schema_with_metadata(
                                      outcomes[i], gen.work_items[i].endpoint),
                        !.status = "schema_generated"]],
        !.errors = @ \o SynthesisErrors(gen.work_items, outcomes)]

\* generate_display_name(method, path, description): its positional parameters
generate_display_name_parameters == 3
\* generate_display_name(tool_name, description): the arguments compose_tool_node passes
compose_tool_display_name_arguments == 2

\* compose_tool_node reaches the call for the first item whose status is
\* schema_generated; the call raises TypeError (an argument is missing), outside
\* any try: the node raises
ComposeToolRaises(gen) ==
    /\ \E i \in DOMAIN gen.work_items : gen.work_items[i].status = "schema_generated"
    /\ compose_tool_display_name_arguments # generate_display_name_parameters

\* a plausible slip: the items that were skipped are taken off the list
compose_tool_node_drops_skipped(gen) ==
    [gen EXCEPT !.tools = <<>>,
                !.work_items = SelectSeq(@, LAMBDA item : item.status = "composed")]

\* compose_tool_node when no item is in schema_generated: every item is skipped
compose_tool_node(gen) == [gen EXCEPT !.tools = <<>>]

\* jsonschema.Draft7Validator.check_schema on the cleaned schema
SchemaChecks(parameters) == ~SchemaError(remove_custom_fields(parameters))

RECURSIVE ValidationErrors(_)
ValidationErrors(tools) ==
    IF tools = <<>> THEN <<>>
    ELSE (IF SchemaChecks(Head(tools).parameters) THEN <<>>
          ELSE << [tool_name |-> Head(tools).name, stage |-> "validation"] >>)
         \o ValidationErrors(Tail(tools))

\* tool["validated"] = True
Validated(tool) ==
    [k \in (DOMAIN tool) \cup {"validated"} |-> IF k = "validated" THEN TRUE ELSE tool[k]]

\* the tools before the first one that fails the check
RECURSIVE PassedPrefix(_)
PassedPrefix(tools) ==
    IF tools = <<>> \/ ~SchemaChecks(Head(tools).parameters) THEN <<>>
    ELSE <<Head(tools)>> \o PassedPrefix(Tail(tools))

\* a plausible slip: the loop ends at the first tool that fails the check
validate_node_stops_at_failure(gen) ==
    LET passed == PassedPrefix(gen.tools)
    IN [gen EXCEPT
          !.tools = [i \in DOMAIN passed |-> Validated(passed[i])],
          !.errors = @ \o (IF Len(passed) < Len(gen.tools)
                           THEN ValidationErrors(<<gen.tools[Len(passed) + 1]>>)
                           ELSE <<>>)]

validate_node(gen) ==
    LET passed == SelectSeq(gen.tools, LAMBDA t : SchemaChecks(t.parameters))
    IN [gen EXCEPT
          !.tools = [i \in DOMAIN passed |-> Validated(passed[i])],
          !.errors = @ \o ValidationErrors(gen.tools)]

\* the characters of tool names in the order of their code points: digits,
\* upper-case letters, the underscore, lower-case letters
CodePointOrder ==
    <<"0", "1", "2", "3", "4", "5", "6", "7", "8", "9",
      "A", "B", "C", "D", "E", "F", "G", "H", "I", "J", "K", "L", "M",
      "N", "O", "P", "Q", "R", "S", "T", "U", "V", "W", "X", "Y", "Z",
      "_",
      "a", "b", "c", "d", "e", "f", "g", "h", "i", "j", "k", "l", "m",
      "n", "o", "p", "q", "r", "s", "t", "u", "v", "w", "x", "y", "z">>
CodePointRank(c) == CHOOSE i \in DOMAIN CodePointOrder : CodePointOrder[i] = c

\* a <= b for two strings (sequences of characters), as Python compares them:
\* at the first position where they differ by code point, a prefix before the
\* longer string
RECURSIVE StrLeq(_, _)
StrLeq(a, b) ==
    IF a = <<>> THEN TRUE
    ELSE IF b = <<>> THEN FALSE
    ELSE IF Head(a) = Head(b) THEN StrLeq(Tail(a), Tail(b))
    ELSE CodePointRank(Head(a)) < CodePointRank(Head(b))

\* a plausible slip: a tool goes before the tools of equal name already placed
RECURSIVE InsertByNameBeforeEqual(_, _)
InsertByNameBeforeEqual(sorted, t) ==
    IF sorted = <<>> THEN <<t>>
    ELSE IF /\ StrLeq(sorted[Len(sorted)].name, t.name)
            /\ sorted[Len(sorted)].name # t.name THEN Append(sorted, t)
    ELSE Append(InsertByNameBeforeEqual(SubSeq(sorted, 1, Len(sorted) - 1), t),
                sorted[Len(sorted)])

\* tools.sort(key=lambda t: t["name"]): list.sort is stable; modelled as a stable
\* insertion sort, a tool going after the tools whose name is not greater
RECURSIVE InsertByName(_, _)
InsertByName(sorted, t) ==
    IF sorted = <<>> THEN <<t>>
    ELSE IF StrLeq(sorted[Len(sorted)].name, t.name) THEN Append(sorted, t)
    ELSE Append(InsertByName(SubSeq(sorted, 1, Len(sorted) - 1), t), sorted[Len(sorted)])

RECURSIVE SortByName(_, _)
SortByName(tools, sorted) ==
    IF tools = <<>> THEN sorted
    ELSE SortByName(Tail(tools), InsertByName(sorted, Head(tools)))

aggregate_tools_node(gen) == [gen EXCEPT !.tools = SortByName(gen.tools, <<>>)]

\* stream(None, config) hands interrupt() no resume value
NoResumeValue == "no_resume_value"

\* a plausible slip: the node goes on without waiting for a resume value
InterruptReturnsAtOnce(resume_value) == FALSE

\* interrupt(value) in interrupt_for_review_node: with no resume value it raises
\* GraphInterrupt and the thread stays before the node
InterruptRaises(resume_value) == resume_value = NoResumeValue

\* the edits interrupt_for_review_node applies once interrupt() has returned
interrupt_for_review_node(gen, review_result) ==
    IF review_result # NoResumeValue /\ review_result.edited_tools # <<>>
    THEN [gen EXCEPT !.tools = review_result.edited_tools]
    ELSE gen

finalize_node(gen) ==
    [gen EXCEPT !.status = "completed", !.final_count = Len(gen.tools)]

(***************************************************************************)
(* Generation: the run and resume functions and the steps of the graph.    *)
(***************************************************************************)
\* run_generation: a fresh checkpoint at the entry point, then stream
RunGeneration ==
    /\ g_run = "idle"
    /\ \E endpoints \in EndpointLists :
          \E ids \in IdChoices(endpoints) :
              \E server_url \in SuppliedServerUrls :
                  selection' = [endpoint_ids |-> ids, endpoints |-> endpoints,
                                server_url |-> server_url]
    /\ generation' = EmptyGeneration
    /\ g_next' = GenerationEntry
    /\ g_run' = StatusAt(GenerationEntry, GenerationNodes, GenerationInterruptBefore)
    /\ g_resuming' = FALSE
    /\ UNCHANGED <<g_steps, g_calls, g_results, gen_state, d_vars, call>>

\* the stream call under way returns: its caller reads the snapshot
Returns(run, snapshot) ==
    IF run \in {"suspended", "ended"}
    THEN IF g_calls = <<>>
         THEN gen_state' = snapshot /\ g_results' = g_results
         ELSE g_results' = Append(g_results, snapshot) /\ gen_state' = gen_state
    ELSE UNCHANGED <<g_results, gen_state>>

\* a step of the generation graph that ran `node` and left `gen`
GenerationStep(node, gen) ==
    LET next == GenerationEdges[node]
        run == StatusAt(next, GenerationNodes, GenerationInterruptBefore)
    IN /\ g_run = "running" /\ g_next = node
       /\ generation' = gen
       /\ g_steps' = Append(g_steps, node)
       /\ g_next' = next
       /\ g_run' = run
       /\ g_resuming' = FALSE
       /\ Returns(run, Snapshot(selection, gen, next))
       /\ UNCHANGED <<selection, g_calls, d_vars, call>>

\* `node` raised: stream re-raises, the checkpoint is the one before the step
GenerationStepRaises(node) ==
    /\ g_run = "running" /\ g_next = node
    /\ g_run' = "failed"
    /\ g_resuming' = FALSE
    /\ UNCHANGED <<g_next, g_steps, selection, generation, g_calls, g_results,
                   gen_state, d_vars, call>>

PlanWork ==
    /\ g_next = "plan_work"
    /\ GenerationStep("plan_work", plan_work_node(selection))

FetchDocs ==
    \E outcomes \in [DOMAIN generation.work_items -> FetchOutcomes] :
        /\ \A i \in DOMAIN outcomes :
              ~FetchAttempted(generation.work_items[i].endpoint) => outcomes[i] = "nothing"
        /\ GenerationStep("fetch_docs", fetch_docs_node(generation, outcomes))

SchemaSynthesis ==
    /\ ~SchemaSynthesisRaises(generation)
    /\ \E outcomes \in [DOMAIN generation.work_items -> SynthesisOutcomes] :
          GenerationStep("schema_synthesis", schema_synthesis_node(generation, outcomes))

SchemaSynthesisFails ==
    /\ SchemaSynthesisRaises(generation)
    /\ GenerationStepRaises("schema_synthesis")

ComposeTool ==
    /\ ~ComposeToolRaises(generation)
    /\ GenerationStep("compose_tool", compose_tool_node(generation))

ComposeToolFails ==
    /\ ComposeToolRaises(generation)
    /\ GenerationStepRaises("compose_tool")

Validate ==
    /\ g_next = "validate"
    /\ GenerationStep("validate", validate_node(generation))

AggregateTools ==
    /\ g_next = "aggregate_tools"
    /\ GenerationStep("aggregate_tools", aggregate_tools_node(generation))

\* the node at the interrupt point, entered by a stream(None, config) call made
\* while the thread is suspended before it: interrupt() raises and the call
\* returns with the thread where it was
InterruptForReview ==
    /\ g_run = "running" /\ g_next = "interrupt_for_review"
    /\ IF InterruptRaises(NoResumeValue)
       THEN /\ g_run' = "suspended"
            /\ g_resuming' = FALSE
            /\ Returns("suspended", Snapshot(selection, generation, g_next))
            /\ UNCHANGED <<g_next, g_steps, selection, generation, g_calls, d_vars, call>>
       ELSE GenerationStep("interrupt_for_review",
                           interrupt_for_review_node(generation, NoResumeValue))

Finalize ==
    /\ g_next = "finalize"
    /\ GenerationStep("finalize", finalize_node(generation))

\* update_data of resume_generation_with_approval
UpdateData(approved, edited_tools) ==
    [approved |-> approved, edited_tools |-> edited_tools]

\* the keys of update_data: edited_tools only "if edited_tools"
UpdateKeys(update) ==
    {"approved"} \cup (IF update.edited_tools # <<>> THEN {"edited_tools"} ELSE {})

\* state["generation"] after update_state(config, update_data, as_node=...): only
\* a value given under the key "generation" would replace it
UpdatedGeneration(gen, update) ==
    IF "generation" \in UpdateWritten(GenerationStateKeys, UpdateKeys(update))
    THEN update.generation
    ELSE gen

\* resume_generation_with_approval: update_state as node interrupt_for_review,
\* which moves the cursor to the node after it, then stream(None, config)
ResumeGenerationWithApproval ==
    /\ g_run \in {"suspended", "ended"}
    /\ Len(g_calls) < MaxResumes
    /\ UpdateStateAccepted(GenerationNodes, "interrupt_for_review")
    /\ \E approved \in BOOLEAN, edited_tools \in EditedToolLists :
          LET update == UpdateData(approved, edited_tools)
          IN /\ g_calls' = Append(g_calls, [kind |-> "update", update |-> update])
             /\ generation' = UpdatedGeneration(generation, update)
    /\ g_next' = GenerationEdges["interrupt_for_review"]
    /\ g_run' = StatusAt(GenerationEdges["interrupt_for_review"], GenerationNodes,
                         GenerationInterruptBefore)
    /\ g_resuming' = TRUE
    /\ UNCHANGED <<g_steps, selection, g_results, gen_state, d_vars, call>>

\* a resume with no update: stream(None, config) alone.  On a suspended thread
\* the stream goes on from the cursor, past the interrupt_before check it
\* stopped at; on an ended thread there is nothing to run
ResumeWithoutUpdate ==
    /\ g_run \in {"suspended", "ended"}
    /\ Len(g_calls) < MaxResumes
    /\ g_calls' = Append(g_calls, [kind |-> "none", update |-> UpdateData(FALSE, <<>>)])
    /\ IF g_run = "suspended"
       THEN /\ g_run' = "running"
            /\ g_resuming' = TRUE
            /\ UNCHANGED g_results
       ELSE /\ g_results' = Append(g_results, Snapshot(selection, generation, g_next))
            /\ UNCHANGED <<g_run, g_resuming>>
    /\ UNCHANGED <<g_next, g_steps, selection, generation, gen_state, d_vars, call>>

GenerationNext ==
    \/ RunGeneration
    \/ PlanWork
    \/ FetchDocs
    \/ SchemaSynthesis
    \/ SchemaSynthesisFails
    \/ ComposeTool
    \/ ComposeToolFails
    \/ Validate
    \/ AggregateTools
    \/ InterruptForReview
    \/ Finalize
    \/ ResumeGenerationWithApproval
    \/ ResumeWithoutUpdate

(***************************************************************************)
(* Specifications.                                                         *)
(***************************************************************************)
Init ==
    /\ d_run = "idle"
    /\ d_next = Unset
    /\ d_steps = <<>>
    /\ d_routes = <<>>
    /\ d_input = [files |-> <<>>, root_url |-> NoUrl, server_url |-> <<>>]
    /\ discovery = EmptyDiscovery
    /\ d_selection = [stored |-> FALSE, endpoint_ids |-> {}]
    /\ d_resumes = 0
    /\ g_run = "idle"
    /\ g_next = Unset
    /\ g_steps = <<>>
    /\ selection = [endpoint_ids |-> {}, endpoints |-> <<>>, server_url |-> <<>>]
    /\ generation = EmptyGeneration
    /\ g_resuming = FALSE
    /\ g_calls = <<>>
    /\ g_results = <<>>
    /\ gen_state = Unset
    /\ call = NoCall

\* the Discovery thread alone
SpecDiscovery == Init /\ [][DiscoveryNext]_vars

\* the Generation thread alone
SpecGeneration == Init /\ [][GenerationNext]_vars

(***************************************************************************)
(* Properties of the Generation thread (SpecGeneration).                   *)
(***************************************************************************)
\* the steps of the generation graph up to the review interrupt, in order
GenerationOrder ==
    <<"plan_work", "fetch_docs", "schema_synthesis", "compose_tool", "validate",
      "aggregate_tools">>

Occurrences(steps, node) == Cardinality({i \in DOMAIN steps : steps[i] = node})

Returned == DOMAIN g_results

\* C4 (as stated): a resume that carries an edited tool list leaves exactly
\* that list as the thread's tool list.
C4_EditedToolsAreTheToolList ==
    \A i \in Returned :
        (g_calls[i].kind = "update" /\ g_calls[i].update.edited_tools # <<>>)
            => g_results[i].generation.tools = g_calls[i].update.edited_tools

\* C5: a resume with no update, made while the thread is suspended, executes no
\* step, leaves the cursor before interrupt_for_review and returns a snapshot
\* equal to the one the run returned when it paused.
C5_ResumeWithoutUpdateIsNoOp ==
    (g_calls # <<>> /\ \A i \in DOMAIN g_calls : g_calls[i].kind = "none")
        => /\ g_steps = GenerationOrder
           /\ g_next = "interrupt_for_review"
           /\ \A i \in Returned : g_results[i] = gen_state

\* two resumes with no update have returned and the thread is still suspended
C5_Witness ==
    /\ Len(g_results) = 2
    /\ \A i \in DOMAIN g_calls : g_calls[i].kind = "none"
    /\ g_run = "suspended"
    /\ g_results[2] = gen_state

\* C6 (as stated): of two resumes with the same update, the second executes no
\* step: finalize has run once, whatever the number of resumes.
C6_SecondResumeExecutesNoStep ==
    (/\ Len(g_calls) = 2
     /\ g_calls[1] = g_calls[2]
     /\ g_calls[1].kind = "update")
        => Occurrences(g_steps, "finalize") <= 1

(***************************************************************************)
(* Properties of the Discovery thread (SpecDiscovery).                     *)
(***************************************************************************)
\* C2 (as stated): a Discovery run does not reach END before a resume with the
\* selected ids, and the thread's state then holds the selection.
C2_NoEndBeforeSelection ==
    d_next = END => (d_resumes > 0 /\ d_selection.stored)

\* C3: the routing function is evaluated once, when classify_input has run, and
\* its result is a key of the path map; the step after classify_input is
\* parse_files when the file list is non-empty and discover_from_web otherwise,
\* the other of the two never runs, and the step after it is endpoint_extractor.
C3_RoutesOnceToOneBranch ==
    /\ Len(d_routes) = Occurrences(d_steps, "classify_input")
    /\ Len(d_routes) <= 1
    /\ \A i \in DOMAIN d_routes : d_routes[i] \in DOMAIN DiscoveryPathMap
    /\ Occurrences(d_steps, "parse_files") + Occurrences(d_steps, "discover_from_web") <= 1
    /\ d_steps # <<>> =>
          LET branch == IF d_input.files # <<>> THEN "parse_files" ELSE "discover_from_web"
              after == IF Len(d_steps) = 1 THEN d_next ELSE d_steps[2]
          IN /\ d_steps[1] = "classify_input"
             /\ after = branch
             /\ \A i \in DOMAIN d_steps :
                   d_steps[i] \in {"parse_files", "discover_from_web"} => i = 2
    /\ Len(d_steps) >= 2 =>
          (IF Len(d_steps) = 2 THEN d_next ELSE d_steps[3]) = "endpoint_extractor"

\* a run given neither files nor a root URL went through discover_from_web, and
\* endpoint_extractor ran next
C3_Witness ==
    /\ Len(d_steps) >= 3
    /\ d_input.files = <<>> /\ d_input.root_url = NoUrl
    /\ d_routes = <<"url">>
    /\ d_steps[2] = "discover_from_web"
    /\ d_steps[3] = "endpoint_extractor"

\* normalize_and_dedup has run: endpoints_normalized is its output
Normalized == "normalize_and_dedup" \in {d_steps[i] : i \in DOMAIN d_steps}

\* the raw endpoints the loop does not skip, as indices of endpoints_raw
Kept(raw) == {i \in DOMAIN raw : Strip(raw[i].path) # <<>>}

\* (server, method, canonical path) of a raw endpoint
RawTriple(ep, server_url) ==
    <<server_url, Upper(ep.method), RemoveWhitespace(BeforeQuery(Strip(ep.path)))>>

\* the indices of the raw endpoints that are the first of their triple, ascending
FirstOccurrences(raw, server_url) ==
    SelectSeq([i \in DOMAIN raw |-> i],
              LAMBDA i : /\ i \in Kept(raw)
                         /\ \A j \in Kept(raw) :
                               j < i => RawTriple(raw[j], server_url)
                                           # RawTriple(raw[i], server_url))

\* two raw endpoints of the list fall on one triple
HasDuplicate(raw, server_url) ==
    \E i, j \in Kept(raw) :
        i < j /\ RawTriple(raw[i], server_url) = RawTriple(raw[j], server_url)

\* C7: no two normalized endpoints have the same (server, method, path).
C7_TriplesAreUnique ==
    Normalized =>
        \A i, j \in DOMAIN discovery.endpoints_normalized :
            LET a == discovery.endpoints_normalized[i]
                b == discovery.endpoints_normalized[j]
            IN i # j => <<a.server, a.method, a.path>> # <<b.server, b.method, b.path>>

\* a raw list with two endpoints on one triple and one on another was normalized
C7_Witness ==
    /\ Normalized
    /\ HasDuplicate(discovery.endpoints_raw, d_input.server_url)
    /\ Len(discovery.endpoints_normalized) = 2

\* C8: the normalized list has one entry per first occurrence of a triple, in the
\* order of the first occurrences, and each entry carries that first raw
\* endpoint's parameters, requestBody and source and its stripped description.
C8_FirstOccurrenceIsKept ==
    Normalized =>
        LET raw == discovery.endpoints_raw
            firsts == FirstOccurrences(raw, d_input.server_url)
            out == discovery.endpoints_normalized
        IN /\ Len(out) = Len(firsts)
           /\ \A k \in DOMAIN out :
                 LET ep == raw[firsts[k]]
                 IN /\ <<out[k].server, out[k].method, out[k].path>>
                          = RawTriple(ep, d_input.server_url)
                    /\ out[k].description = Strip(ep.description)
                    /\ out[k].parameters = ep.parameters
                    /\ out[k].requestBody = ep.requestBody
                    /\ out[k].source = ep.source

\* a later raw endpoint on the triple of an earlier one differs from it in its
\* description and parameters, and a further triple follows
C8_Witness ==
    /\ Normalized
    /\ Len(discovery.endpoints_normalized) = 2
    /\ \E i, j \in Kept(discovery.endpoints_raw) :
          LET a == discovery.endpoints_raw[i]
              b == discovery.endpoints_raw[j]
          IN /\ i < j
             /\ RawTriple(a, d_input.server_url) = RawTriple(b, d_input.server_url)
             /\ Strip(a.description) # Strip(b.description)
             /\ a.parameters # b.parameters
             /\ j < Len(discovery.endpoints_raw)

\* C9: the id of a normalized endpoint is the digest of its server URL, its
\* upper-cased method and its canonical path, and of nothing else; normalizing
\* the raw list again gives the same ids in the same order.
C9_IdIsFunctionOfTriple ==
    Normalized =>
        LET out == discovery.endpoints_normalized
            again == NormalizeEndpoints(discovery.endpoints_raw, d_input.server_url)
        IN /\ \A k \in DOMAIN out :
                 /\ out[k].method = Upper(out[k].method)
                 /\ out[k].id = Md5Hex12(UniqueKey(out[k].server, out[k].method, out[k].path))
           /\ [k \in DOMAIN out |-> out[k].id] = [k \in DOMAIN again |-> again[k].id]

\* an endpoint whose raw method was lower case and whose raw path carried blanks
\* and a query string was given an id
C9_Witness ==
    /\ Normalized
    /\ discovery.endpoints_normalized # <<>>
    /\ d_input.server_url # <<>>
    /\ \E i \in Kept(discovery.endpoints_raw) :
          LET ep == discovery.endpoints_raw[i]
          IN /\ ep.path # RemoveWhitespace(BeforeQuery(Strip(ep.path)))
             /\ i \in {FirstOccurrences(discovery.endpoints_raw, d_input.server_url)[k] :
                         k \in 1..Len(discovery.endpoints_normalized)}

\* q is p followed by blanks and, possibly, a query string
DiffersByTail(p, q) ==
    /\ Len(q) > Len(p)
    /\ SubSeq(q, 1, Len(p)) = p
    /\ Strip(BeforeQuery(SubSeq(q, Len(p) + 1, Len(q)))) = <<>>

CleanPath(p) ==
    /\ p # <<>>
    /\ \A i \in DOMAIN p : p[i] # "?" /\ ~IsSpace(p[i])

\* C10: no normalized path holds a "?" or a blank; two raw endpoints of one
\* method whose paths differ only by trailing blanks and a query string come
\* out as a single entry.
C10_PathsAreCanonical ==
    Normalized =>
        LET raw == discovery.endpoints_raw
            out == discovery.endpoints_normalized
        IN /\ \A k \in DOMAIN out :
                 \A i \in DOMAIN out[k].path :
                     out[k].path[i] # "?" /\ ~IsSpace(out[k].path[i])
           /\ \A i, j \in DOMAIN raw :
                 (/\ Upper(raw[i].method) = Upper(raw[j].method)
                  /\ CleanPath(raw[i].path)
                  /\ DiffersByTail(raw[i].path, raw[j].path))
                    => Cardinality({k \in DOMAIN out :
                                      /\ out[k].method = Upper(raw[i].method)
                                      /\ out[k].path = raw[i].path}) = 1

\* "/a" and "/a ?x", both GET, were normalized to one entry
C10_Witness ==
    /\ Normalized
    /\ Len(discovery.endpoints_normalized) = 1
    /\ \E i, j \in DOMAIN discovery.endpoints_raw :
          /\ Upper(discovery.endpoints_raw[i].method) = Upper(discovery.endpoints_raw[j].method)
          /\ CleanPath(discovery.endpoints_raw[i].path)
          /\ DiffersByTail(discovery.endpoints_raw[i].path, discovery.endpoints_raw[j].path)
          /\ \E k \in DOMAIN discovery.endpoints_raw[j].path :
                discovery.endpoints_raw[j].path[k] = "?"

(***************************************************************************)
(* The helpers and node functions called on their own, outside a run of    *)
(* the graphs: one call, on arguments drawn from the sets below.           *)
(***************************************************************************)
\* the endpoints calculate_confidence is called on
ConfidenceEndpoints ==
    { [description |-> d, parameters |-> p, source |-> s] :
         d \in {<<>>, <<"x">>, <<" ">>},
         p \in {<<>>, <<"p">>},
         s \in {"openapi", "llm", "regex", "unknown"} }

CallCalculateConfidence ==
    /\ call = NoCall
    /\ \E endpoint \in ConfidenceEndpoints :
          call' = [fn |-> "calculate_confidence", endpoint |-> endpoint,
                   out |-> calculate_confidence(endpoint)]
    /\ UNCHANGED <<d_vars, g_vars>>

\* the endpoints enhance_schema_with_metadata is called with: it reads requestBody
SchemaEndpoints == {[requestBody |-> EmptyBody], [requestBody |-> JsonBody]}

CallEnhanceSchema ==
    /\ call = NoCall
    /\ \E schema \in DraftSchemas, endpoint \in SchemaEndpoints :
          LET out == enhance_schema_with_metadata(schema, endpoint)
          IN call' = [fn |-> "enhance_schema_with_metadata", schema |-> schema,
                      endpoint |-> endpoint, out |-> out,
                      again |-> enhance_schema_with_metadata(out, endpoint)]
    /\ UNCHANGED <<d_vars, g_vars>>

\* the schemas remove_custom_fields is called on: drafts as the oracle returned
\* them, and drafts after enhance_schema_with_metadata
CleanedSchemas ==
    DraftSchemas \cup
    {enhance_schema_with_metadata(schema, endpoint) :
        schema \in DraftSchemas, endpoint \in SchemaEndpoints}

\* remove_custom_fields(schema), and remove_custom_fields of what it returned
CallRemoveCustomFields ==
    /\ call = NoCall
    /\ \E schema \in CleanedSchemas :
          LET out == remove_custom_fields(schema)
          IN call' = [fn |-> "remove_custom_fields", schema |-> schema,
                      out |-> out, again |-> remove_custom_fields(out)]
    /\ UNCHANGED <<d_vars, g_vars>>

\* tools as compose_tool_node builds them, with the fields the later nodes read
Tool(name, description, parameters) ==
    [name |-> name, description |-> description, parameters |-> parameters]

\* the tools validate_node is called on: two whose schema passes the check, two
\* whose schema fails it
ValidateTools ==
    { Tool(<<"X", "_", "A">>, "a", enhance_schema_with_metadata(NestedSchema, [requestBody |-> EmptyBody])),
      Tool(<<"X", "_", "B">>, "b", EnumSchema),
      Tool(<<"X", "_", "C">>, "c", enhance_schema_with_metadata(MalformedSchema, [requestBody |-> EmptyBody])),
      Tool(<<"X", "_", "D">>, "d", ListSchema) }

\* an error an earlier step recorded
EarlierError == [endpoint_id |-> UnknownId, stage |-> "schema_synthesis"]

\* state["generation"] as a node called on its own receives it
NodeInput(tools, errors) ==
    [work_items |-> <<>>, tools |-> tools, errors |-> errors,
     status |-> Unset, final_count |-> Unset]

CallValidate ==
    /\ call = NoCall
    /\ \E tools \in SeqsUpTo(ValidateTools, MaxTools), errors \in {<<>>, <<EarlierError>>} :
          call' = [fn |-> "validate_node", gen |-> NodeInput(tools, errors),
                   out |-> validate_node(NodeInput(tools, errors))]
    /\ UNCHANGED <<d_vars, g_vars>>

\* the tools aggregate_tools_node is called on: two of the same name, a name
\* that is a prefix of another, and names that differ in a digit, a letter and
\* the underscore
SortTools ==
    { Tool(<<"X", "_", "A">>, "first", StringSchema),
      Tool(<<"X", "_", "A">>, "second", StringSchema),
      Tool(<<"X", "_">>, "prefix", StringSchema),
      Tool(<<"X", "1">>, "digit", StringSchema),
      Tool(<<"X", "B">>, "letter", StringSchema),
      Tool(<<"W", "_", "Z">>, "other vendor", StringSchema) }

CallAggregateTools ==
    /\ call = NoCall
    /\ \E tools \in SeqsUpTo(SortTools, MaxTools) :
          call' = [fn |-> "aggregate_tools_node", gen |-> NodeInput(tools, <<EarlierError>>),
                   out |-> aggregate_tools_node(NodeInput(tools, <<EarlierError>>))]
    /\ UNCHANGED <<d_vars, g_vars>>

\* the paths extract_resource is called on
ResourcePaths ==
    { <<"/", "a", "p", "i", "/", "v", "1", "/", "f", "l", "i", "g", "h", "t", "s", "/", "{", "i", "d", "}">>, <<"/", "u", "s", "e", "r", "s">>, <<"/", "u", "s", "e", "r", "s", "/", "{", "i", "d", "}">>, <<"/", "v", "1", "/", "{", "i", "d", "}">>,
      <<"/", "v", "e", "h", "i", "c", "l", "e", "s", "/", "{", "i", "d", "}">>, <<"/", "v", "2", "/", "v", "i", "d", "e", "o", "s">>, <<"/", "V", "1", "/", "U", "s", "e", "r", "s">>, <<"/", "/", "a", "/", "b">>, <<"/">>, <<>> }

CallExtractResource ==
    /\ call = NoCall
    /\ \E path \in ResourcePaths :
          call' = [fn |-> "extract_resource", path |-> path, out |-> extract_resource(path)]
    /\ UNCHANGED <<d_vars, g_vars>>

\* the methods and paths determine_verb is called on
VerbMethods ==
    { <<"G", "E", "T">>, <<"g", "e", "t">>, <<"P", "o", "s", "t">>, <<"P", "U", "T">>, <<"P", "A", "T", "C", "H">>, <<"d", "e", "l", "e", "t", "e">>, <<"H", "E", "A", "D">>, <<>> }
VerbPaths ==
    { <<"/", "u", "s", "e", "r", "s">>, <<"/", "u", "s", "e", "r", "s", "/", "{", "i", "d", "}">>, <<"/", "u", "s", "e", "r", "s", "/", "s", "e", "a", "r", "c", "h">>, <<"/", "F", "i", "n", "d", "/", "{", "i", "d", "}">>, <<"/", "u", "s", "e", "r", "s", "/", "l", "i", "s", "t">>,
      <<"/", "L", "I", "S", "T">>, <<"/", "u", "s", "e", "r", "s", "/", "{">>, <<"/", "s", "e", "a", "r", "c", "h", "/", "l", "i", "s", "t">> }

CallDetermineVerb ==
    /\ call = NoCall
    /\ \E method \in VerbMethods, path \in VerbPaths :
          call' = [fn |-> "determine_verb", method |-> method, path |-> path,
                   out |-> determine_verb(method, path)]
    /\ UNCHANGED <<d_vars, g_vars>>

\* a sentence of n letters
Letters(n) == [i \in 1..n |-> "a"]

\* the descriptions generate_display_name_fallback is called with: none, short
\* sentences with and without blanks around them, an empty first sentence, and
\* sentences at and over the limit
FallbackDescriptions ==
    { <<>>, <<"L", "i", "s", "t", " ", "u", "s", "e", "r", "s", ".", " ", "A", "l", "l", " ", "o", "f", " ", "t", "h", "e", "m">>, <<" ", "H", "e", "l", "l", "o", " ", ".">>, <<".", "x">>, <<" ", ".", " ", "x">>,
      Letters(DisplayNameLimit), Letters(DisplayNameLimit + 1),
      Letters(DisplayNameLimit) \o <<".", " ", "b">>,
      <<" ">> \o Letters(DisplayNameLimit) \o <<" ">>,
      <<" ">> \o Letters(DisplayNameLimit - 1) }

FallbackEndpoints ==
    { [method |-> <<"G", "E", "T">>, path |-> <<"/", "u", "s", "e", "r", "s">>],
      [method |-> <<"p", "o", "s", "t">>, path |-> <<"/", "u", "s", "e", "r", "_", "p", "r", "o", "f", "i", "l", "e", "s">>],
      [method |-> <<"G", "E", "T">>, path |-> <<"/", "v", "1", "/", "{", "i", "d", "}">>] }

CallDisplayNameFallback ==
    /\ call = NoCall
    /\ \E ep \in FallbackEndpoints, description \in FallbackDescriptions :
          call' = [fn |-> "generate_display_name_fallback", method |-> ep.method,
                   path |-> ep.path, description |-> description,
                   out |-> generate_display_name_fallback(ep.method, ep.path, description)]
    /\ UNCHANGED <<d_vars, g_vars>>

\* s.split(c)
RECURSIVE SplitOnFrom(_, _, _)
SplitOnFrom(s, c, cur) ==
    IF s = <<>> THEN <<cur>>
    ELSE IF Head(s) = c THEN <<cur>> \o SplitOnFrom(Tail(s), c, <<>>)
    ELSE SplitOnFrom(Tail(s), c, Append(cur, Head(s)))

\* the text of s before the first character of `stops`
RECURSIVE UpTo(_, _)
UpTo(s, stops) ==
    IF s = <<>> \/ Head(s) \in stops THEN <<>>
    ELSE <<Head(s)>> \o UpTo(Tail(s), stops)

\* the text of s after the first "//", or s when there is none
RECURSIVE AfterScheme(_, _)
AfterScheme(s, whole) ==
    IF Len(s) < 2 THEN whole
    ELSE IF SubSeq(s, 1, 2) = <<"/", "/">> THEN SubSeq(s, 3, Len(s))
    ELSE AfterScheme(Tail(s), whole)

\* the host of a server URL
HostOf(server) == UpTo(AfterScheme(server, server), {"/", ":", "?"})

\* extract_vendor: the second-to-last label of the host when it has two or
\* more, else the whole host; "api" for an empty input
extract_vendor(server) ==
    LET labels == SplitOnFrom(HostOf(server), ".", <<>>)
    IN IF server = <<>> THEN <<"a", "p", "i">>
       ELSE IF Len(labels) >= 2 THEN labels[Len(labels) - 1]
       ELSE HostOf(server)

\* tool_name of compose_tool_node: f"{vendor}__{resource}__{verb}".upper()
tool_name(endpoint) ==
    Upper(extract_vendor(endpoint.server) \o <<"_", "_">>
          \o extract_resource(endpoint.path) \o <<"_", "_">>
          \o determine_verb(endpoint.method, endpoint.path))

\* the endpoints two names are composed for
NameMethods == { <<"G", "E", "T">>, <<"P", "O", "S", "T">>, <<"P", "U", "T">>, <<"P", "A", "T", "C", "H">> }
NamePaths == { <<"/", "u", "s", "e", "r", "s">>, <<"/", "u", "s", "e", "r", "s", "/", "{", "i", "d", "}">>, <<"/", "u", "s", "e", "r", "s", "/", "s", "e", "a", "r", "c", "h">>, <<"/", "a", "c", "c", "o", "u", "n", "t", "s">> }
NameServers == { <<>>, ApiXCom }

\* the names compose_tool_node composes for two endpoints of one selection
CallComposeToolName ==
    /\ call = NoCall
    /\ \E server \in NameServers :
          \E m1 \in NameMethods, m2 \in NameMethods :
              \E p1 \in NamePaths, p2 \in NamePaths :
                  LET first == [method |-> m1, path |-> p1, server |-> server]
                      second == [method |-> m2, path |-> p2, server |-> server]
                  IN call' = [fn |-> "tool_name", first |-> first, second |-> second,
                              names |-> <<tool_name(first), tool_name(second)>>]
    /\ UNCHANGED <<d_vars, g_vars>>

HelpersNext ==
    \/ CallComposeToolName
    \/ CallDisplayNameFallback
    \/ CallDetermineVerb
    \/ CallExtractResource
    \/ CallCalculateConfidence
    \/ CallAggregateTools
    \/ CallEnhanceSchema
    \/ CallRemoveCustomFields
    \/ CallValidate

\* one call of a helper or of a node function
SpecHelpers == Init /\ [][HelpersNext]_vars

(***************************************************************************)
(* Properties of the helpers (SpecHelpers).                                *)
(***************************************************************************)
\* C11: calculate_confidence returns, in hundredths, 50 plus 20 for a non-empty
\* description, plus 15 for a non-empty parameters list, plus 15 for source
\* openapi, and the result lies between 50 and 100.
C11_ConfidenceIsBoundedSum ==
    call.fn = "calculate_confidence" =>
        LET e == call.endpoint
            bonus == (IF Len(e.description) > 0 THEN 20 ELSE 0)
                     + (IF Len(e.parameters) > 0 THEN 15 ELSE 0)
                     + (IF e.source = "openapi" THEN 15 ELSE 0)
        IN /\ call.out >= 50 /\ call.out <= 100
           /\ call.out = (IF 50 + bonus > 100 THEN 100 ELSE 50 + bonus)

\* an OpenAPI endpoint with a description and parameters scores 100, and the
\* call was made
C11_Witness ==
    /\ call.fn = "calculate_confidence"
    /\ call.endpoint.source = "openapi"
    /\ call.endpoint.description # <<>>
    /\ call.endpoint.parameters # <<>>
    /\ call.out = 100

HasAllThree(x) ==
    HasKey(x, "required") /\ HasKey(x, "visible") /\ HasKey(x, "additionalProperties")

\* every object-typed node of x, at any depth, has the three keys
RECURSIVE AllObjectsHaveAllThree(_)
AllObjectsHaveAllThree(x) ==
    IF IsDict(x)
    THEN /\ IsObjectTyped(x) => HasAllThree(x)
         /\ \A k \in DOMAIN x.v : AllObjectsHaveAllThree(x.v[k])
    ELSE IF IsList(x)
    THEN \A i \in DOMAIN x.v : AllObjectsHaveAllThree(x.v[i])
    ELSE TRUE

RECURSIVE WalkedObjectsHaveMetadata(_)
WalkedObjectsHaveMetadata(x) ==
    \/ ~IsDict(x)
    \/ /\ IsObjectTyped(x) =>
             /\ HasKey(x, "required") /\ HasKey(x, "additionalProperties")
             /\ DOMAIN PropertiesOf(x).v # {} => HasKey(x, "visible")
             /\ \A k \in DOMAIN PropertiesOf(x).v :
                   WalkedObjectsHaveMetadata(PropertiesOf(x).v[k])
       /\ (/\ ~IsObjectTyped(x)
           /\ HasKey(x, "type") /\ IsStr(x.v.type, "array")
           /\ HasKey(x, "items")) => WalkedObjectsHaveMetadata(x.v.items)
       /\ \A n \in DOMAIN CompositionKeys :
             (HasKey(x, CompositionKeys[n]) /\ IsList(x.v[CompositionKeys[n]])) =>
                \A i \in DOMAIN x.v[CompositionKeys[n]].v :
                    WalkedObjectsHaveMetadata(x.v[CompositionKeys[n]].v[i])

RECURSIVE NoVisibleKey(_)
NoVisibleKey(x) ==
    IF IsDict(x)
    THEN /\ ~HasKey(x, "visible")
         /\ \A k \in DOMAIN x.v : NoVisibleKey(x.v[k])
    ELSE IF IsList(x)
    THEN \A i \in DOMAIN x.v : NoVisibleKey(x.v[i])
    ELSE TRUE

\* C13 (as stated): the output of remove_custom_fields has no key visible at any
\* depth, dictionaries inside lists and inside nested lists included.
C13_OutputHasNoVisibleKey ==
    call.fn = "remove_custom_fields" => NoVisibleKey(call.out)

\* C14: remove_custom_fields applied to its own output returns that output.
C14_RemoveCustomFieldsIsIdempotent ==
    call.fn = "remove_custom_fields" => call.again = call.out

\* a schema with visible at two depths was cleaned, and cleaning the result
\* again left it as it was
C14_Witness ==
    /\ call.fn = "remove_custom_fields"
    /\ IsDict(call.schema)
    /\ HasKey(call.schema, "visible")
    /\ HasKey(call.schema, "properties")
    /\ \E k \in DOMAIN call.schema.v.properties.v :
          /\ IsDict(call.schema.v.properties.v[k])
          /\ HasKey(call.schema.v.properties.v[k], "visible")
    /\ NoVisibleKey(call.out)
    /\ call.again = call.out

\* the cleaned schema of a tool passes the structural check
PassesCheck(tool) == ValidSchema(remove_custom_fields(tool.parameters))

\* C15: validate_node drops each tool whose cleaned schema fails the check and
\* appends one error with that tool's name and stage validation; every other
\* tool is kept, in its previous order, with validated = true and nothing else
\* changed; the errors recorded earlier and the work items stay.
C15_ValidateDropsFailingTools ==
    call.fn = "validate_node" =>
        LET tools == call.gen.tools
            kept == SelectSeq([i \in DOMAIN tools |-> i], LAMBDA i : PassesCheck(tools[i]))
            dropped == SelectSeq([i \in DOMAIN tools |-> i], LAMBDA i : ~PassesCheck(tools[i]))
            out == call.out
        IN /\ Len(out.tools) = Len(kept)
           /\ \A k \in DOMAIN out.tools :
                 /\ out.tools[k].validated = TRUE
                 /\ out.tools[k].name = tools[kept[k]].name
                 /\ out.tools[k].description = tools[kept[k]].description
                 /\ out.tools[k].parameters = tools[kept[k]].parameters
           /\ Len(out.errors) = Len(call.gen.errors) + Len(dropped)
           /\ SubSeq(out.errors, 1, Len(call.gen.errors)) = call.gen.errors
           /\ \A k \in DOMAIN dropped :
                 out.errors[Len(call.gen.errors) + k]
                    = [tool_name |-> tools[dropped[k]].name, stage |-> "validation"]
           /\ out.work_items = call.gen.work_items

\* a failing tool stood between two passing ones: both are kept, in order, and
\* one error follows the earlier one
C15_Witness ==
    /\ call.fn = "validate_node"
    /\ Len(call.gen.tools) = 3
    /\ PassesCheck(call.gen.tools[1])
    /\ ~PassesCheck(call.gen.tools[2])
    /\ PassesCheck(call.gen.tools[3])
    /\ call.gen.tools[1].name # call.gen.tools[3].name
    /\ Len(call.out.tools) = 2
    /\ call.gen.errors # <<>>
    /\ Len(call.out.errors) = 2

(***************************************************************************)
(* Properties of the Generation steps (SpecGeneration).                    *)
(***************************************************************************)
Ran(node) == node \in {g_steps[i] : i \in DOMAIN g_steps}

\* C16 (as stated): schema_synthesis completes without failing the run, whatever
\* happens to single work items.
C16_SchemaSynthesisNeverFailsTheRun ==
    ~(g_run = "failed" /\ g_next = "schema_synthesis")

\* the ids of the work items, in order
ItemIds(items) == [i \in DOMAIN items |-> items[i].id]

\* the ids of the endpoints of the selection that are selected, in order
SelectedInOrder(sel) ==
    SelectSeq([i \in DOMAIN sel.endpoints |-> i],
              LAMBDA i : sel.endpoints[i].id \in sel.endpoint_ids)

\* C17: once plan_work has run, the sequence of work-item ids is the one
\* plan_work made, in every later state; every schema_synthesis error names a
\* work item that is still in the list with status error.
C17_WorkItemsAreNeverDropped ==
    Ran("plan_work") =>
        /\ ItemIds(generation.work_items)
              = [k \in DOMAIN SelectedInOrder(selection) |->
                    selection.endpoints[SelectedInOrder(selection)[k]].id]
        /\ \A e \in DOMAIN generation.errors :
              generation.errors[e].stage = "schema_synthesis" =>
                 \E i \in DOMAIN generation.work_items :
                    /\ generation.work_items[i].id = generation.errors[e].endpoint_id
                    /\ generation.work_items[i].status = "error"

\* a run ended with two work items, both failed in schema_synthesis and both
\* still in the list
C17_Witness ==
    /\ g_next = END
    /\ Len(generation.work_items) = 2
    /\ Len(generation.errors) = 2
    /\ \A i \in DOMAIN generation.work_items : generation.work_items[i].status = "error"

\* C18: plan_work leaves one pending work item for each endpoint of the list
\* whose id is selected, in the order of the list, none for the other endpoints
\* or for selected ids that no endpoint has, and empty tool and error lists.
C18_PlanWorkSelects ==
    g_steps = <<"plan_work">> =>
        LET chosen == SelectedInOrder(selection)
            items == generation.work_items
        IN /\ Len(items) = Len(chosen)
           /\ \A k \in DOMAIN items :
                 /\ items[k].id = selection.endpoints[chosen[k]].id
                 /\ items[k].endpoint = selection.endpoints[chosen[k]]
                 /\ items[k].status = "pending"
           /\ \A k \in DOMAIN items : items[k].id \in selection.endpoint_ids
           /\ generation.tools = <<>>
           /\ generation.errors = <<>>

\* of two endpoints one was selected, together with an id no endpoint has: one
\* work item
C18_Witness ==
    /\ g_steps = <<"plan_work">>
    /\ Len(selection.endpoints) = 2
    /\ UnknownId \in selection.endpoint_ids
    /\ Cardinality(selection.endpoint_ids) = 2
    /\ Len(generation.work_items) = 1
    /\ generation.work_items[1].id = selection.endpoints[2].id

\* C19 (as stated): compose_tool turns the work items whose status is
\* schema_generated into tools: the step completes whenever it is reached.
C19_ComposeToolCompletes ==
    ~(g_run = "failed" /\ g_next = "compose_tool")

\* the ways to read the list out as a rearrangement of the list in
Rearrangements(n) ==
    {p \in [1..n -> 1..n] : \A i, j \in 1..n : p[i] = p[j] => i = j}

\* C20: the tool list aggregate_tools returns is a permutation of the list it
\* received, non-decreasing by name in lexicographic order, and tools of equal
\* name keep their relative order; nothing else of the record changes.
C20_AggregateIsStableSortByName ==
    call.fn = "aggregate_tools_node" =>
        LET in == call.gen.tools
            out == call.out.tools
            n == Len(in)
        IN /\ Len(out) = n
           /\ call.out.errors = call.gen.errors
           /\ \E p \in Rearrangements(n) :
                 /\ \A k \in 1..n : out[k] = in[p[k]]
                 /\ \A k, l \in 1..n :
                       k < l => /\ StrLeq(out[k].name, out[l].name)
                                /\ out[k].name = out[l].name => p[k] < p[l]

\* the list held a tool of a smaller name between the two tools of one name
\* (the underscore comes after the upper-case letters) and came out with that
\* tool first and the two in their earlier order
C20_Witness ==
    /\ call.fn = "aggregate_tools_node"
    /\ Len(call.gen.tools) = 3
    /\ call.gen.tools[1].description = "first"
    /\ call.gen.tools[2].name = <<"X", "B">>
    /\ call.gen.tools[3].description = "second"
    /\ call.out.tools[1].name = <<"X", "B">>
    /\ call.out.tools[2].description = "first"
    /\ call.out.tools[3].description = "second"

(***************************************************************************)
(* Properties of the naming helpers (SpecHelpers).                         *)
(***************************************************************************)
\* C22 (as stated): extract_resource applied to /api/v1/flights/{id} returns
\* flights.
C22_FlightsPathGivesFlights ==
    (call.fn = "extract_resource" /\ call.path = <<"/", "a", "p", "i", "/", "v", "1", "/", "f", "l", "i", "g", "h", "t", "s", "/", "{", "i", "d", "}">>)
        => call.out = <<"f", "l", "i", "g", "h", "t", "s">>

Digits == {"0", "1", "2", "3", "4", "5", "6", "7", "8", "9"}

\* the letter v followed by digits
IsVersionMarker(p) ==
    /\ Len(p) >= 2
    /\ p[1] = "v"
    /\ \A i \in 2..Len(p) : p[i] \in Digits

\* {placeholder}
IsPlaceholder(p) == Len(p) >= 2 /\ p[1] = "{" /\ p[Len(p)] = "}"

\* the segments that remain when only empty segments, version markers and
\* placeholders are dropped
EligibleSegments(path) ==
    SelectSeq(SplitSlash(path),
              LAMBDA p : p # <<>> /\ ~IsVersionMarker(p) /\ ~IsPlaceholder(p))

\* C26 (as stated): extract_resource returns the first segment that is not
\* empty, not a version marker and not a placeholder, whatever its first
\* letter, or resource if there is none.
C26_OnlyMarkersAndPlaceholdersAreDropped ==
    call.fn = "extract_resource" =>
        call.out = IF EligibleSegments(call.path) # <<>>
                   THEN EligibleSegments(call.path)[1]
                   ELSE <<"r", "e", "s", "o", "u", "r", "c", "e">>

\* C23 (as stated): determine_verb gives list at this step only for a path
\* containing /list as written; a path that has it in another letter case is
\* named by its method.
C23_ListIsMatchedAsWritten ==
    (/\ call.fn = "determine_verb"
     /\ ~Contains(Lower(call.path), <<"/", "s", "e", "a", "r", "c", "h">>)
     /\ ~Contains(Lower(call.path), <<"/", "f", "i", "n", "d">>)
     /\ ~Contains(call.path, <<"/", "l", "i", "s", "t">>)
     /\ Upper(call.method) = <<"P", "O", "S", "T">>)
        => call.out = <<"c", "r", "e", "a", "t", "e">>

\* the verb of the method alone
VerbOfMethod(method, has_brace) ==
    CASE Upper(method) = <<"G", "E", "T">> -> (IF has_brace THEN <<"g", "e", "t">> ELSE <<"l", "i", "s", "t">>)
      [] Upper(method) = <<"P", "O", "S", "T">> -> <<"c", "r", "e", "a", "t", "e">>
      [] Upper(method) = <<"P", "U", "T">> -> <<"u", "p", "d", "a", "t", "e">>
      [] Upper(method) = <<"P", "A", "T", "C", "H">> -> <<"u", "p", "d", "a", "t", "e">>
      [] Upper(method) = <<"D", "E", "L", "E", "T", "E">> -> <<"d", "e", "l", "e", "t", "e">>
      [] OTHER -> <<"e", "x", "e", "c", "u", "t", "e">>

\* C23: determine_verb returns search for a path containing /search or /find
\* in any letter case, whatever the method; otherwise list for a path
\* containing /list in any letter case; otherwise the verb of the method,
\* compared in any letter case, where GET gives get if the path contains the
\* character { and list if not.
C23_VerbByPathThenMethod ==
    call.fn = "determine_verb" =>
        LET path == Lower(call.path)
            searches == Contains(path, <<"/", "s", "e", "a", "r", "c", "h">>) \/ Contains(path, <<"/", "f", "i", "n", "d">>)
            lists == Contains(path, <<"/", "l", "i", "s", "t">>)
        IN /\ searches => call.out = <<"s", "e", "a", "r", "c", "h">>
           /\ (~searches /\ lists) => call.out = <<"l", "i", "s", "t">>
           /\ (~searches /\ ~lists) =>
                 call.out = VerbOfMethod(call.method, \E i \in DOMAIN call.path : call.path[i] = "{")

\* POST on /LIST came out as list
C23_Witness ==
    /\ call.fn = "determine_verb"
    /\ call.path = <<"/", "L", "I", "S", "T">>
    /\ Upper(call.method) = <<"P", "O", "S", "T">>
    /\ call.out = <<"l", "i", "s", "t">>

\* "{verb} {resource}" for the call
VerbAndResource == determine_verb(call.method, call.path) \o <<" ">> \o extract_resource(call.path)

\* C30 (as stated): generate_display_name_fallback returns the text up to the
\* first period as it stands whenever a description is present and that text
\* has at most 50 characters, and otherwise the title-cased "{verb} {resource}".
C30_FirstSentenceVerbatim ==
    call.fn = "generate_display_name_fallback" =>
        IF call.description # <<>> /\ Len(BeforePeriod(call.description)) <= 50
        THEN call.out = BeforePeriod(call.description)
        ELSE call.out = Title(VerbAndResource)

\* C30: generate_display_name_fallback returns the text up to the first period
\* with the blanks around it removed, whenever that is not empty and has at
\* most 50 characters; otherwise the title-cased "{verb} {resource}" with
\* every underscore turned into a space.
C30_StrippedFirstSentenceOrVerbResource ==
    call.fn = "generate_display_name_fallback" =>
        LET sentence == Strip(BeforePeriod(call.description))
        IN /\ (sentence # <<>> /\ Len(sentence) <= 50) => call.out = sentence
           /\ (sentence = <<>> \/ Len(sentence) > 50) =>
                 call.out = Title(UnderscoresToSpaces(VerbAndResource))

\* a description whose first sentence has 50 letters between two blanks came
\* back as the 50 letters
C30_Witness ==
    /\ call.fn = "generate_display_name_fallback"
    /\ Len(BeforePeriod(call.description)) = 52
    /\ Len(call.out) = 50
    /\ call.out = Strip(call.description)

(***************************************************************************)
(* Properties of enhance_schema_with_metadata: the flexible flag.          *)
(***************************************************************************)
\* every object-typed node of the draft in that lacks additionalProperties and
\* is on the walk has, in out, the value flag at this node and false below
\* properties and items; the members of allOf, oneOf and anyOf are expected to
\* have this node's value if inherit, false if not
RECURSIVE FlagsAsExpected(_, _, _, _)
FlagsAsExpected(in, out, flag, inherit) ==
    \/ ~IsDict(in)
    \/ /\ (IsObjectTyped(in) /\ ~HasKey(in, "additionalProperties")) =>
             /\ HasKey(out, "additionalProperties")
             /\ out.v.additionalProperties = Bool(flag)
       /\ (IsObjectTyped(in) /\ HasKey(in, "properties")) =>
             \A k \in DOMAIN in.v.properties.v :
                FlagsAsExpected(in.v.properties.v[k], out.v.properties.v[k], FALSE, inherit)
       /\ (/\ ~IsObjectTyped(in)
           /\ HasKey(in, "type") /\ IsStr(in.v.type, "array")
           /\ HasKey(in, "items")) =>
             FlagsAsExpected(in.v.items, out.v.items, FALSE, inherit)
       /\ \A n \in DOMAIN CompositionKeys :
             (HasKey(in, CompositionKeys[n]) /\ IsList(in.v[CompositionKeys[n]])) =>
                \A i \in DOMAIN in.v[CompositionKeys[n]].v :
                    FlagsAsExpected(in.v[CompositionKeys[n]].v[i],
                                    out.v[CompositionKeys[n]].v[i],
                                    inherit /\ flag, inherit)

\* true iff the endpoint declares a non-empty request-body content section
Flexible(endpoint) == endpoint.requestBody.content # {}

\* C29 (as stated): an object-typed node that lacked additionalProperties has
\* the endpoint's flexible flag only if it is the top-level node; every such
\* node below the top level has false.
C29_FlexibleOnlyAtTopLevel ==
    call.fn = "enhance_schema_with_metadata" =>
        FlagsAsExpected(call.schema, call.out, Flexible(call.endpoint), FALSE)

\* C29: an object-typed node that lacked additionalProperties has the
\* endpoint's flexible flag if it is the top-level node or is reached from it
\* through members of allOf, oneOf and anyOf only; every such node reached
\* through a property or through items has false.
C29_FlexibleAtTopAndItsCompositions ==
    call.fn = "enhance_schema_with_metadata" =>
        FlagsAsExpected(call.schema, call.out, Flexible(call.endpoint), TRUE)

\* for an endpoint with a request-body content section, the top node and the
\* member of its allOf came out flexible, the object under a property of that
\* member strict
C29_Witness ==
    /\ call.fn = "enhance_schema_with_metadata"
    /\ call.schema = AllOfSchema
    /\ Flexible(call.endpoint)
    /\ call.out.v.additionalProperties = Bool(TRUE)
    /\ call.out.v.allOf.v[1].v.additionalProperties = Bool(TRUE)
    /\ call.out.v.allOf.v[1].v.properties.v.b.v.additionalProperties = Bool(FALSE)

(***************************************************************************)
(* Properties of the catalog (SpecDiscovery).                              *)
(***************************************************************************)
\* summarize_for_ui has built the catalog of the normalized endpoints
CatalogBuilt == \E i \in DOMAIN d_steps : d_steps[i] = "summarize_for_ui"

\* C27 (as stated): every entry of the catalog is filed under the resource
\* name that extract_resource returns for its path.
C27_FiledUnderExtractResource ==
    CatalogBuilt =>
        \A g \in DOMAIN discovery.catalog.resources :
            \A e \in DOMAIN discovery.catalog.resources[g].entries :
                discovery.catalog.resources[g].resource
                    = extract_resource(discovery.catalog.resources[g].entries[e].path)

\* the position of the endpoint with this id in the normalized list
PositionOf(id) ==
    CHOOSE i \in DOMAIN discovery.endpoints_normalized :
        discovery.endpoints_normalized[i].id = id

\* the places <<group, entry>> of the catalog
CatalogPlaces ==
    UNION {{<<g, e>> : e \in DOMAIN discovery.catalog.resources[g].entries} :
              g \in DOMAIN discovery.catalog.resources}

\* C28: in the catalog, total_endpoints is the number of normalized endpoints,
\* resource_count the number of groups, the groups have different names, every
\* normalized endpoint is at exactly one place of exactly one group, and the
\* entries of a group follow the order of the normalized list.
C28_CatalogCountsAndOrder ==
    CatalogBuilt =>
        LET catalog == discovery.catalog
            groups == catalog.resources
        IN /\ catalog.total_endpoints = Len(discovery.endpoints_normalized)
           /\ catalog.resource_count = Len(groups)
           /\ \A g, h \in DOMAIN groups : groups[g].resource = groups[h].resource => g = h
           /\ \A g \in DOMAIN groups : groups[g].entries # <<>>
           /\ \A i \in DOMAIN discovery.endpoints_normalized :
                 Cardinality({p \in CatalogPlaces :
                                groups[p[1]].entries[p[2]].id
                                   = discovery.endpoints_normalized[i].id}) = 1
           /\ Cardinality(CatalogPlaces) = Len(discovery.endpoints_normalized)
           /\ \A g \in DOMAIN groups :
                 \A e, f \in DOMAIN groups[g].entries :
                    e < f => PositionOf(groups[g].entries[e].id)
                                < PositionOf(groups[g].entries[f].id)

\* a catalog of three groups, one of them with two endpoints
C28_Witness ==
    /\ CatalogBuilt
    /\ discovery.catalog.resource_count = 3
    /\ discovery.catalog.total_endpoints = 4
    /\ \E g \in DOMAIN discovery.catalog.resources :
          Len(discovery.catalog.resources[g].entries) = 2

(***************************************************************************)
(* Properties of compose_tool in runs (SpecGeneration).                    *)
(***************************************************************************)
\* what Discovery yields for the OpenAPI document with the one operation
UsersListEndpoints == NormalizeEndpoints(extract_openapi_endpoints(UsersListDoc), ApiXCom)

\* the run has stopped: it failed, is suspended for review, or has ended
Stopped == g_run \in {"failed", "suspended", "ended"}

\* C21 (as stated): the document with GET /users and the server
\* https://api.x.com yields one normalized endpoint, GET /users from openapi,
\* and a Generation run on its id whose schema synthesis and validation
\* succeed stops with exactly one tool, named X__USERS__LIST.
C21_OneEndpointOneTool ==
    /\ Len(UsersListEndpoints) = 1
    /\ UsersListEndpoints[1].method = <<"G", "E", "T">>
    /\ UsersListEndpoints[1].path = <<"/", "u", "s", "e", "r", "s">>
    /\ UsersListEndpoints[1].source = "openapi"
    /\ (/\ selection.endpoints = UsersListEndpoints
        /\ selection.endpoint_ids = {UsersListEndpoints[1].id}
        /\ Stopped
        /\ Ran("schema_synthesis")
        /\ generation.work_items[1].status # "error"
        /\ SchemaChecks(generation.work_items[1].schema))
          => /\ Len(generation.tools) = 1
             /\ generation.tools[1].name = <<"X", "_", "_", "U", "S", "E", "R", "S", "_", "_", "L", "I", "S", "T">>

C25_ComposeToolRunsToItsEnd ==
    (Stopped /\ Ran("schema_synthesis")) => Ran("compose_tool")

DiscoveryRan(node) == \E i \in DOMAIN d_steps : d_steps[i] = node

\* C36 (as stated): every endpoint normalize_and_dedup emits has a non-empty
\* canonical path.
C36_EmittedPathsAreNotEmpty ==
    DiscoveryRan("normalize_and_dedup") =>
        \A i \in DOMAIN discovery.endpoints_normalized :
            discovery.endpoints_normalized[i].path # <<>>

\* C33 (as stated): endpoint_extractor applies the patterns and the oracle to
\* every page discover_from_web produced, from the sitemap or from the crawl.
C33_EveryPageIsRead ==
    DiscoveryRan("endpoint_extractor") =>
        \A i \in DOMAIN discovery.pages : PageIsRead(discovery.pages[i])

\* C34 (as stated): every file that can be read and is not an OpenAPI-like
\* document (it parses but has no paths key, or it does not parse) has its text
\* handed to the oracle.
C34_OtherFilesGoToTheOracle ==
    DiscoveryRan("parse_files") =>
        \A i \in DOMAIN d_input.files :
            FileKind(d_input.files[i]) \in {"no_paths", "scalar", "unparseable"}
                => RoutedToOracle(d_input.files[i])

(***************************************************************************)
(* Properties of remove_custom_fields and enhance_schema_with_metadata:    *)
(* what they leave alone (SpecHelpers).                                    *)
(***************************************************************************)
\* every node of in that declares properties declares the same property names
\* in out
RECURSIVE PropertyNamesKept(_, _)
PropertyNamesKept(in, out) ==
    IF IsDict(in) /\ IsDict(out)
    THEN /\ (HasKey(in, "properties") /\ IsDict(in.v.properties)) =>
               /\ HasKey(out, "properties")
               /\ IsDict(out.v.properties)
               /\ DOMAIN out.v.properties.v = DOMAIN in.v.properties.v
         /\ \A k \in (DOMAIN in.v) \cap (DOMAIN out.v) :
               PropertyNamesKept(in.v[k], out.v[k])
    ELSE IF IsList(in) /\ IsList(out) /\ Len(in.v) = Len(out.v)
    THEN \A i \in DOMAIN in.v : PropertyNamesKept(in.v[i], out.v[i])
    ELSE TRUE

\* C37 (as stated): for every object node, the property names declared under
\* properties are the same after remove_custom_fields as before, whatever the
\* names are.
C37_PropertyNamesAreKept ==
    call.fn = "remove_custom_fields" => PropertyNamesKept(call.schema, call.out)

MetadataKeys == {"required", "visible", "additionalProperties"}

\* out is in with nothing but metadata keys added, at this node and at the
\* nodes under properties, items, allOf, oneOf and anyOf; every other key has
\* the value it had
RECURSIVE OnlyMetadataAdded(_, _)
OnlyMetadataAdded(in, out) ==
    IF ~IsDict(in) THEN out = in
    ELSE /\ IsDict(out)
         /\ DOMAIN in.v \subseteq DOMAIN out.v
         /\ (DOMAIN out.v) \ (DOMAIN in.v) \subseteq MetadataKeys
         /\ \A k \in DOMAIN in.v :
               IF k = "properties" /\ IsDict(in.v[k])
               THEN /\ IsDict(out.v[k])
                    /\ DOMAIN out.v[k].v = DOMAIN in.v[k].v
                    /\ \A p \in DOMAIN in.v[k].v :
                          OnlyMetadataAdded(in.v[k].v[p], out.v[k].v[p])
               ELSE IF k = "items"
               THEN OnlyMetadataAdded(in.v[k], out.v[k])
               ELSE IF k \in {"allOf", "oneOf", "anyOf"} /\ IsList(in.v[k])
               THEN /\ IsList(out.v[k])
                    /\ Len(out.v[k].v) = Len(in.v[k].v)
                    /\ \A i \in DOMAIN in.v[k].v :
                          OnlyMetadataAdded(in.v[k].v[i], out.v[k].v[i])
               ELSE out.v[k] = in.v[k]

\* C38: enhance_schema_with_metadata adds nothing but missing required, visible
\* and additionalProperties keys and changes no value that was present;
\* applied to its own output with the same endpoint it returns that output.
C38_EnhanceOnlyAddsAndIsIdempotent ==
    call.fn = "enhance_schema_with_metadata" =>
        /\ OnlyMetadataAdded(call.schema, call.out)
        /\ call.again = call.out

\* a schema that had required and lacked the rest kept its required list,
\* gained the other two keys, and a second application changed nothing
C38_Witness ==
    /\ call.fn = "enhance_schema_with_metadata"
    /\ call.schema = RequiredOnlySchema
    /\ call.out.v.required = List(<<Str("a")>>)
    /\ HasKey(call.out, "visible")
    /\ HasKey(call.out, "additionalProperties")
    /\ call.out # call.schema
    /\ call.again = call.out

\* the changes of status a work item may make in one step
StatusMoves ==
    { <<"pending", "schema_generated">>, <<"schema_generated", "composed">>,
      <<"pending", "error">> }

\* every item that is on the list before and after the step kept its status
\* or moved along StatusMoves
StatusMovesForward ==
    \A i \in (DOMAIN generation.work_items) \cap (DOMAIN generation'.work_items) :
        generation.work_items[i].id = generation'.work_items[i].id =>
            \/ generation'.work_items[i].status = generation.work_items[i].status
            \/ <<generation.work_items[i].status, generation'.work_items[i].status>>
                  \in StatusMoves

NoItemPendingAfterSynthesis ==
    Ran("schema_synthesis") =>
        \A i \in DOMAIN generation.work_items :
            generation.work_items[i].status # "pending"

\* C39: a work item's status changes only along pending -> schema_generated ->
\* composed or pending -> error: no step moves an item out of error or out of
\* composed, or back to pending, and once schema_synthesis has run no item is
\* pending.
C39_StatusOnlyMovesForward ==
    /\ []NoItemPendingAfterSynthesis
    /\ [][StatusMovesForward]_vars

\* schema_synthesis has run on two items: one came out schema_generated, the
\* other error
C39_Witness ==
    /\ Ran("schema_synthesis")
    /\ Len(generation.work_items) >= 2
    /\ \E i \in DOMAIN generation.work_items :
          generation.work_items[i].status = "schema_generated"
    /\ \E i \in DOMAIN generation.work_items :
          generation.work_items[i].status = "error"

MaxPages == 3

\* the URLs of a site, and one of another host
CrawlUrls == {"root", "a", "b", "ext"}
RootUrl == "root"

\* urlparse(url).netloc
Netloc(url) == IF url = "ext" THEN "other.com" ELSE "docs.x.com"

\* the links of each page, as urljoin resolves them, in the order of the page:
\* cycles, a link given twice, links of a page to itself, links to another host
CrawlSites ==
    { [root |-> <<"a", "b", "a">>, a |-> <<"root", "b">>,
       b |-> <<"a", "ext", "b">>, ext |-> <<"root">>],
      [root |-> <<"root">>, a |-> <<>>, b |-> <<>>, ext |-> <<>>],
      [root |-> <<"ext", "a">>, a |-> <<"b">>, b |-> <<"root">>, ext |-> <<"a">>],
      [root |-> <<"b", "a">>, a |-> <<"b", "b">>, b |-> <<>>, ext |-> <<>>] }

\* requests.get(url): status 200, another status, or an exception
CrawlFetchOutcomes == {"ok", "not200", "raises"}

\* the locals of simple_crawl before the loop; `fetched` lists the requests made
simple_crawl_start(site, outcomes, max_pages) ==
    [fn |-> "simple_crawl", site |-> site, outcomes |-> outcomes,
     max_pages |-> max_pages, visited |-> {}, to_visit |-> <<RootUrl>>,
     pages |-> <<>>, fetched |-> <<>>, done |-> FALSE]

\* while to_visit and len(pages) < max_pages
CrawlContinues(c) == c.to_visit # <<>> /\ Len(c.pages) < c.max_pages

\* the links of a fetched page that are put on the list
Enqueued(c, url, visited) ==
    SelectSeq(c.site[url],
              LAMBDA next_url : Netloc(next_url) = Netloc(RootUrl)
                                /\ next_url \notin visited)

\* a plausible slip: a URL taken off the list is fetched whether visited or not
crawl_iteration_fetches_visited(c) ==
    LET url == Head(c.to_visit)
        rest == Tail(c.to_visit)
        visited == c.visited \cup {url}
    IN IF c.outcomes[url] = "ok"
       THEN [c EXCEPT !.visited = visited,
                      !.fetched = Append(@, url),
                      !.pages = Append(@, Page(url, "docs_plain", "crawl")),
                      !.to_visit = rest \o Enqueued(c, url, visited)]
       ELSE [c EXCEPT !.visited = visited,
                      !.fetched = Append(@, url),
                      !.to_visit = rest]

\* a plausible slip: the URL is taken off the list after the visited test
crawl_iteration_tests_before_pop(c) ==
    LET url == Head(c.to_visit)
        rest == Tail(c.to_visit)
        visited == c.visited \cup {url}
    IN IF url \in c.visited THEN c
       ELSE IF c.outcomes[url] = "ok"
       THEN [c EXCEPT !.visited = visited,
                      !.fetched = Append(@, url),
                      !.pages = Append(@, Page(url, "docs_plain", "crawl")),
                      !.to_visit = rest \o Enqueued(c, url, visited)]
       ELSE [c EXCEPT !.visited = visited,
                      !.fetched = Append(@, url),
                      !.to_visit = rest]

\* one pass of the loop body of simple_crawl
crawl_iteration(c) ==
    LET url == Head(c.to_visit)
        rest == Tail(c.to_visit)
        visited == c.visited \cup {url}
    IN IF url \in c.visited THEN [c EXCEPT !.to_visit = rest]
       ELSE IF c.outcomes[url] = "ok"
       THEN [c EXCEPT !.visited = visited,
                      !.fetched = Append(@, url),
                      !.pages = Append(@, Page(url, "docs_plain", "crawl")),
                      !.to_visit = rest \o Enqueued(c, url, visited)]
       ELSE [c EXCEPT !.visited = visited,
                      !.fetched = Append(@, url),
                      !.to_visit = rest]

\* simple_crawl(root_url, max_pages) is called
CallSimpleCrawl ==
    /\ call = NoCall
    /\ \E site \in CrawlSites, outcomes \in [CrawlUrls -> CrawlFetchOutcomes],
          max_pages \in 0..MaxPages :
          call' = simple_crawl_start(site, outcomes, max_pages)
    /\ UNCHANGED <<d_vars, g_vars>>

CrawlIteration ==
    /\ call.fn = "simple_crawl"
    /\ ~call.done
    /\ CrawlContinues(call)
    /\ call' = crawl_iteration(call)
    /\ UNCHANGED <<d_vars, g_vars>>

\* the loop is left: return pages
CrawlReturn ==
    /\ call.fn = "simple_crawl"
    /\ ~call.done
    /\ ~CrawlContinues(call)
    /\ call' = [call EXCEPT !.done = TRUE]
    /\ UNCHANGED <<d_vars, g_vars>>

CrawlNext ==
    \/ CallSimpleCrawl
    \/ CrawlIteration
    \/ CrawlReturn

\* one call of simple_crawl
SpecCrawl == Init /\ [][CrawlNext]_vars

\* the call goes on once started: the loop is sequential code, each request
\* returns or raises within its timeout
SpecCrawlFair ==
    Init /\ [][CrawlNext]_vars /\ WF_vars(CrawlIteration) /\ WF_vars(CrawlReturn)

\* the URLs within k links of the root, following the links of the pages that
\* were fetched with status 200 to URLs of the root's netloc
RECURSIVE Within(_, _)
Within(c, k) ==
    IF k = 0 THEN {RootUrl}
    ELSE LET prev == Within(c, k - 1)
         IN prev \cup { v \in CrawlUrls :
                          /\ Netloc(v) = Netloc(RootUrl)
                          /\ \E u \in prev :
                                /\ c.outcomes[u] = "ok"
                                /\ \E i \in DOMAIN c.site[u] : c.site[u][i] = v }

\* links from the root to url, or more than any when there is no way
Depth(c, url) ==
    LET ks == { k \in 0..Cardinality(CrawlUrls) : url \in Within(c, k) }
    IN IF ks = {} THEN Cardinality(CrawlUrls) + 1
       ELSE CHOOSE k \in ks : \A other \in ks : k <= other

NoRepeat(s) == \A i, j \in DOMAIN s : s[i] = s[j] => i = j

PageUrls(pages) == [i \in DOMAIN pages |-> pages[i].url]

\* C32: simple_crawl returns at most max_pages pages, requests no URL more than
\* once, returns no URL twice, requests the URLs in breadth-first order from
\* the root, and puts on its list only URLs of the root's host.
C32_CrawlIsBoundedOnceEachBreadthFirstSameHost ==
    call.fn = "simple_crawl" =>
        /\ Len(call.pages) <= call.max_pages
        /\ NoRepeat(call.fetched)
        /\ NoRepeat(PageUrls(call.pages))
        /\ \A i, j \in DOMAIN call.fetched :
              i < j => Depth(call, call.fetched[i]) <= Depth(call, call.fetched[j])
        /\ \A i \in DOMAIN call.to_visit :
              Netloc(call.to_visit[i]) = Netloc(RootUrl)
        /\ \A url \in call.visited : Netloc(url) = Netloc(RootUrl)

\* a crawl that returned with the page cap reached, of a site whose pages link
\* in a cycle, to themselves, twice to one page and to another host
C32_Witness ==
    /\ call.fn = "simple_crawl"
    /\ call.done
    /\ call.site.root = <<"a", "b", "a">>
    /\ call.max_pages = 2
    /\ PageUrls(call.pages) = <<"root", "a">>
    /\ call.fetched = <<"root", "a">>
    /\ call.to_visit # <<>>

\* C40: a call of simple_crawl returns, for every site, with its cycles, and
\* for every outcome of the requests, all of them failing included.
C40_CrawlTerminates ==
    (call.fn = "simple_crawl") ~> (call.fn = "simple_crawl" /\ call.done)

\* crawls that returned: one of the cyclic site that stopped only when its list
\* was empty, and the ones whose every request failed
C40_Witness ==
    /\ call.fn = "simple_crawl"
    /\ call.done
    /\ \/ /\ call.site.root = <<"a", "b", "a">>
          /\ call.max_pages = MaxPages
          /\ call.outcomes = [u \in CrawlUrls |-> IF u = "b" THEN "raises" ELSE "ok"]
          /\ call.to_visit = <<>>
          /\ call.fetched = <<"root", "a", "b">>
       \/ /\ \A u \in CrawlUrls : call.outcomes[u] # "ok"
          /\ call.max_pages > 0
          /\ call.pages = <<>>
          /\ call.fetched = <<RootUrl>>

=============================================================================
